---- MODULE Spec2Model ----
(***************************************************************************)
(* Model of the greenhouse-screener server: the ATS client (request with   *)
(* 429 backoff), the runtime settings override, the bulk-reject route, the *)
(* full-collection fetch helper, the screening route and service, and the  *)
(* two-phase highlights pipeline.                                          *)
(*                                                                         *)
(* Each component has its own group of variables and its own               *)
(* specification; a specification leaves the other groups parked at their  *)
(* idle values.                                                            *)
(***************************************************************************)
EXTENDS Integers, Sequences, FiniteSets, TLC

VARIABLES
    \* ---- GreenhouseAPI.request / requestWithHeaders (one outbound call)
    rqMethod,       \* "request" | "requestWithHeaders" | "none"
    rqEndpoint,     \* endpoint of the call
    rqPc,           \* "idle" | "fetch" | "sleep" | "returned" | "thrown"
    rqRetries,      \* the `retries` parameter of the current invocation
    rqAttempts,     \* number of fetch() calls issued so far
    rqResponses,    \* history: the responses received, in order
    rqDelays,       \* history: the backoff delays slept, in ms
    rqOutcome       \* the value returned or the error thrown

rqVars == <<rqMethod, rqEndpoint, rqPc, rqRetries, rqAttempts, rqResponses,
            rqDelays, rqOutcome>>

NoValue == [kind |-> "none"]

----------------------------------------------------------------------------
(* Helpers                                                                 *)

Min(a, b) == IF a <= b THEN a ELSE b

RECURSIVE Pow2(_)
Pow2(n) == IF n = 0 THEN 1 ELSE 2 * Pow2(n - 1)

CeilDiv(a, b) == (a + b - 1) \div b

Range(s) == {s[i] : i \in 1..Len(s)}

----------------------------------------------------------------------------
(* ATS client: GreenhouseAPI.request and requestWithHeaders                *)

\* const maxRetries = 5
maxRetries == 5

\* HTTP statuses the upstream may answer with
Statuses == {200, 429, 404, 500}

\* response bodies: JSON data on success, error text otherwise; one of the
\* bodies contains the characters "429"
Bodies == {"body_a", "body_with_429"}

Endpoints == {"/jobs", "/applications"}

Methods == {"request", "requestWithHeaders"}

\* response.ok
ResponseOk(status) == status >= 200 /\ status <= 299

\* Math.min(1000 * Math.pow(2, retries + 1), 30000)
BackoffMs(retries) == Min(1000 * Pow2(retries + 1), 30000)

\* mutant: retry without the `retries < maxRetries` bound
ShouldRetry_NoBound(status, retries) == status = 429

\* mutant: retry every non-OK response
ShouldRetry_AnyError(status, retries) == retries < maxRetries

\* response.status === 429 && retries < maxRetries
ShouldRetry(status, retries) == status = 429 /\ retries < maxRetries

\* new Error(`Greenhouse API error: ${response.status} - ${errorText}`)
ApiError(status, body) == [kind |-> "error", status |-> status, text |-> body]

\* error.message?.includes('429')
MessageIncludes429(err) ==
    err.kind = "error" /\ (err.status = 429 \/ err.text = "body_with_429")

\* the value a successful call resolves to
ReturnValue(method, body) ==
    IF method = "request"
    THEN [kind |-> "json", data |-> body]
    ELSE [kind |-> "dataWithHeaders", data |-> body, headers |-> "hdrs"]

rqIdle ==
    /\ rqMethod = "none"
    /\ rqEndpoint = "none"
    /\ rqPc = "idle"
    /\ rqRetries = 0
    /\ rqAttempts = 0
    /\ rqResponses = <<>>
    /\ rqDelays = <<>>
    /\ rqOutcome = NoValue

\* a caller invokes request(endpoint, options) with retries defaulted to 0
rqInit ==
    /\ rqMethod \in Methods
    /\ rqEndpoint \in Endpoints
    /\ rqPc = "fetch"
    /\ rqRetries = 0
    /\ rqAttempts = 0
    /\ rqResponses = <<>>
    /\ rqDelays = <<>>
    /\ rqOutcome = NoValue

\* await fetch(url, ...) and the branch on the response
RequestFetch ==
    /\ rqPc = "fetch"
    /\ \E status \in Statuses, body \in Bodies :
        /\ rqAttempts' = rqAttempts + 1
        /\ rqResponses' = Append(rqResponses, [status |-> status, body |-> body])
        /\ IF ~ResponseOk(status)
           THEN IF ShouldRetry(status, rqRetries)
                THEN /\ rqPc' = "sleep"
                     /\ rqDelays' = Append(rqDelays, BackoffMs(rqRetries))
                     /\ rqOutcome' = rqOutcome
                ELSE /\ rqPc' = "thrown"
                     /\ rqOutcome' = ApiError(status, body)
                     /\ rqDelays' = rqDelays
           ELSE /\ rqPc' = "returned"
                /\ rqOutcome' = ReturnValue(rqMethod, body)
                /\ rqDelays' = rqDelays
    /\ UNCHANGED <<rqMethod, rqEndpoint, rqRetries>>

\* await sleep(backoffMs); return this.request(endpoint, options, retries + 1)
RequestRetry ==
    /\ rqPc = "sleep"
    /\ rqRetries' = rqRetries + 1
    /\ rqPc' = "fetch"
    /\ UNCHANGED <<rqMethod, rqEndpoint, rqAttempts, rqResponses, rqDelays, rqOutcome>>


----------------------------------------------------------------------------
(* Runtime settings override: config.ts, the settings route, and the two   *)
(* clients constructed at module load                                      *)

VARIABLES
    cfPc,           \* "idle" | "startup" | "running"
    CONFIG,         \* the mutable CONFIG object (the three credentials)
    cfAuth,         \* GreenhouseAPI.auth, computed in the constructor
    cfAnthropicKey, \* apiKey held by the Anthropic client object
    cfSettingsFile, \* content of data/settings.json
    cfSaved,        \* history: which keys a POST /api/settings has supplied
    cfSentAts,      \* credentials of the last outbound ATS request
    cfSentLlm       \* credentials of the last outbound LLM request

cfVars == <<cfPc, CONFIG, cfAuth, cfAnthropicKey, cfSettingsFile, cfSaved,
            cfSentAts, cfSentLlm>>

\* "" stands for an absent / empty (falsy) value
GreenhouseKeys == {"ghKey1", "ghKey2"}
AnthropicKeys  == {"antKey1", "antKey2"}
UserIds        == {"user1", "user2"}

\* a key as GET /api/settings returns it: it contains the bullet character
Masked == "masked_with_bullets"

\* value.includes('•')
IncludesBullet(v) == v = Masked

\* Buffer.from(`${key}:`).toString('base64')
Base64KeyColon(key) == <<"base64", key, ":">>

\* Authorization: `Basic ${this.auth}`
BasicAuth(auth) == <<"Basic", auth>>

\* the headers getter of GreenhouseAPI
Headers(auth, config) ==
    [Authorization |-> BasicAuth(auth), OnBehalfOf |-> config.GREENHOUSE_USER_ID]

EmptySettings == [greenhouseApiKey |-> "", greenhouseUserId |-> "", anthropicApiKey |-> ""]

\* updateConfig(settings): each truthy field overwrites the CONFIG entry
updateConfig(config, settings) ==
    [GREENHOUSE_API_KEY |->
        IF settings.greenhouseApiKey # "" THEN settings.greenhouseApiKey
        ELSE config.GREENHOUSE_API_KEY,
     GREENHOUSE_USER_ID |->
        IF settings.greenhouseUserId # "" THEN settings.greenhouseUserId
        ELSE config.GREENHOUSE_USER_ID,
     ANTHROPIC_API_KEY |->
        IF settings.anthropicApiKey # "" THEN settings.anthropicApiKey
        ELSE config.ANTHROPIC_API_KEY]

\* newSettings of POST /api/settings: a masked or absent key keeps the saved one
MergeSettings(body, current) ==
    [greenhouseApiKey |->
        IF body.greenhouseApiKey # "" /\ ~IncludesBullet(body.greenhouseApiKey)
        THEN body.greenhouseApiKey ELSE current.greenhouseApiKey,
     greenhouseUserId |->
        IF body.greenhouseUserId # "" THEN body.greenhouseUserId
        ELSE current.greenhouseUserId,
     anthropicApiKey |->
        IF body.anthropicApiKey # "" /\ ~IncludesBullet(body.anthropicApiKey)
        THEN body.anthropicApiKey ELSE current.anthropicApiKey]

SettingsBodies ==
    [greenhouseApiKey : GreenhouseKeys \cup {"", Masked},
     greenhouseUserId : UserIds \cup {""},
     anthropicApiKey  : AnthropicKeys \cup {"", Masked}]

cfIdle ==
    /\ cfPc = "idle"
    /\ CONFIG = [GREENHOUSE_API_KEY |-> "", GREENHOUSE_USER_ID |-> "",
                 ANTHROPIC_API_KEY |-> ""]
    /\ cfAuth = Base64KeyColon("")
    /\ cfAnthropicKey = ""
    /\ cfSettingsFile = EmptySettings
    /\ cfSaved = {}
    /\ cfSentAts = NoValue
    /\ cfSentLlm = NoValue

\* module load: CONFIG from the environment, then `new GreenhouseAPI()` and
\* `new Anthropic({apiKey: CONFIG.ANTHROPIC_API_KEY})` read it once
cfInit ==
    /\ cfPc = "startup"
    /\ \E gk \in {"", "ghKey1"}, uid \in {"", "user1"}, ak \in {"", "antKey1"} :
         CONFIG = [GREENHOUSE_API_KEY |-> gk, GREENHOUSE_USER_ID |-> uid,
                   ANTHROPIC_API_KEY |-> ak]
    /\ cfAuth = Base64KeyColon(CONFIG.GREENHOUSE_API_KEY)
    /\ cfAnthropicKey = CONFIG.ANTHROPIC_API_KEY
    /\ cfSettingsFile \in {EmptySettings,
                           [greenhouseApiKey |-> "ghKey2", greenhouseUserId |-> "user2",
                            anthropicApiKey |-> "antKey2"]}
    /\ cfSaved = {}
    /\ cfSentAts = NoValue
    /\ cfSentLlm = NoValue

\* initializeFromSavedSettings(), run once when the server starts
InitializeFromSavedSettings ==
    /\ cfPc = "startup"
    /\ cfPc' = "running"
    /\ CONFIG' = IF cfSettingsFile # EmptySettings
                 THEN updateConfig(CONFIG, cfSettingsFile) ELSE CONFIG
    /\ UNCHANGED <<cfAuth, cfAnthropicKey, cfSettingsFile, cfSaved, cfSentAts, cfSentLlm>>

\* router.post('/') of the settings route: merge, saveSettings, updateConfig
PostSettings ==
    /\ cfPc = "running"
    /\ \E body \in SettingsBodies :
        LET newSettings == MergeSettings(body, cfSettingsFile) IN
        /\ cfSettingsFile' = newSettings
        /\ CONFIG' = updateConfig(CONFIG, newSettings)
        /\ cfSaved' =
             (IF body.greenhouseApiKey \in GreenhouseKeys
              THEN cfSaved \cup {"greenhouse"} ELSE cfSaved)
             \cup (IF body.anthropicApiKey \in AnthropicKeys THEN {"anthropic"} ELSE {})
    /\ UNCHANGED <<cfPc, cfAuth, cfAnthropicKey, cfSentAts, cfSentLlm>>

\* any outbound ATS call: fetch(url, {headers: {...this.headers, ...}})
AtsFetch ==
    /\ cfPc = "running"
    /\ cfSentAts' = [headers |-> Headers(cfAuth, CONFIG),
                     configKey |-> CONFIG.GREENHOUSE_API_KEY,
                     afterSave |-> "greenhouse" \in cfSaved]
    /\ UNCHANGED <<cfPc, CONFIG, cfAuth, cfAnthropicKey, cfSettingsFile, cfSaved, cfSentLlm>>

\* any outbound LLM call: anthropic.messages.create(...)
LlmCreate ==
    /\ cfPc = "running"
    /\ cfSentLlm' = [apiKey |-> cfAnthropicKey,
                     configKey |-> CONFIG.ANTHROPIC_API_KEY,
                     afterSave |-> "anthropic" \in cfSaved]
    /\ UNCHANGED <<cfPc, CONFIG, cfAuth, cfAnthropicKey, cfSettingsFile, cfSaved, cfSentAts>>


----------------------------------------------------------------------------
(* Bulk reject route: router.post('/applications/bulk-reject')             *)

VARIABLES
    brPc,        \* "idle" | "received" | "running" | "responded"
    brBody,      \* the request body
    brTask,      \* per position of application_ids: "inflight" | "settled"
    brCalls,     \* history: per position, number of rejectApplication calls
    brOutcome,   \* history: per position, "ok" | "threw" | "none"
    brRejected,  \* const rejected: number[]
    brFailed,    \* const failed: number[]
    brResponse   \* the HTTP response written by the handler

brVars == <<brPc, brBody, brTask, brCalls, brOutcome, brRejected, brFailed, brResponse>>

\* longest application_ids list explored
MaxBulk == 3

BulkAppIds == {101, 102, 103}

\* all sequences over S of length 0..n
SeqsUpTo(S, n) == UNION {[1..k -> S] : k \in 0..n}

\* number of positions of s holding x
Count(s, x) == Cardinality({i \in 1..Len(s) : s[i] = x})

\* a body field that should hold a list: a list, or some other value
JsArray(a) == [isArray |-> TRUE, items |-> a]
NotAnArray == [isArray |-> FALSE, items |-> <<>>]

\* request bodies: application_ids may be missing / not an array, empty, or a
\* list (repetitions allowed); rejection_reason_id may be absent (0)
BulkBodies ==
    [application_ids : {JsArray(a) : a \in SeqsUpTo(BulkAppIds, MaxBulk)} \cup {NotAnArray},
     rejection_reason_id : {0, 7}]

\* Array.isArray(v) && v.length > 0
IsNonEmptyArray(v) == v.isArray /\ Len(v.items) > 0

\* mutant: the catch block logs the error but forgets failed.push
SettleLists_DropFailed(rejected, failed, id, ok) ==
    IF ok THEN <<Append(rejected, id), failed>> ELSE <<rejected, failed>>

\* try { await rejectApplication(...); rejected.push(id) } catch { failed.push(id) }
SettleLists(rejected, failed, id, ok) ==
    IF ok THEN <<Append(rejected, id), failed>> ELSE <<rejected, Append(failed, id)>>

brIdle ==
    /\ brPc = "idle"
    /\ brBody = NoValue
    /\ brTask = <<>>
    /\ brCalls = <<>>
    /\ brOutcome = <<>>
    /\ brRejected = <<>>
    /\ brFailed = <<>>
    /\ brResponse = NoValue

brInit ==
    /\ brPc = "received"
    /\ brBody \in BulkBodies
    /\ brTask = <<>>
    /\ brCalls = <<>>
    /\ brOutcome = <<>>
    /\ brRejected = <<>>
    /\ brFailed = <<>>
    /\ brResponse = NoValue

\* the synchronous part of the handler: validation, then application_ids.map
\* starts one rejectApplication call per position
BulkRejectStart ==
    /\ brPc = "received"
    /\ IF ~IsNonEmptyArray(brBody.application_ids)
       THEN /\ brPc' = "responded"
            /\ brResponse' = [status |-> 400,
                              error |-> "application_ids must be a non-empty array"]
            /\ UNCHANGED <<brTask, brCalls, brOutcome>>
       ELSE IF brBody.rejection_reason_id = 0
       THEN /\ brPc' = "responded"
            /\ brResponse' = [status |-> 400, error |-> "rejection_reason_id is required"]
            /\ UNCHANGED <<brTask, brCalls, brOutcome>>
       ELSE /\ brPc' = "running"
            /\ brTask' = [i \in 1..Len(brBody.application_ids.items) |-> "inflight"]
            /\ brCalls' = [i \in 1..Len(brBody.application_ids.items) |-> 1]
            /\ brOutcome' = [i \in 1..Len(brBody.application_ids.items) |-> "none"]
            /\ brResponse' = brResponse
    /\ UNCHANGED <<brBody, brRejected, brFailed>>

\* one upstream call settles (in any order): resolved or thrown
BulkRejectSettle ==
    /\ brPc = "running"
    /\ \E i \in 1..Len(brTask), ok \in BOOLEAN :
        /\ brTask[i] = "inflight"
        /\ brTask' = [brTask EXCEPT ![i] = "settled"]
        /\ brOutcome' = [brOutcome EXCEPT ![i] = IF ok THEN "ok" ELSE "threw"]
        /\ LET lists == SettleLists(brRejected, brFailed, brBody.application_ids.items[i], ok) IN
            /\ brRejected' = lists[1]
            /\ brFailed' = lists[2]
    /\ UNCHANGED <<brPc, brBody, brCalls, brResponse>>

\* Promise.all resolved: res.json({ success: true, rejected, failed })
BulkRejectRespond ==
    /\ brPc = "running"
    /\ \A i \in 1..Len(brTask) : brTask[i] = "settled"
    /\ brPc' = "responded"
    /\ brResponse' = [status |-> 200, success |-> TRUE,
                      rejected |-> brRejected, failed |-> brFailed]
    /\ UNCHANGED <<brBody, brTask, brCalls, brOutcome, brRejected, brFailed>>


----------------------------------------------------------------------------
(* Full-collection fetch helper: fetchAllApplicationsLightweight, on top   *)
(* of GreenhouseAPI.getApplicationsLightweight and request                 *)

VARIABLES
    faPc,           \* "idle" | "loop" | "http" | "done" | "failed"
    faPage,         \* let page
    faRetries,      \* let retries (the helper's own retry loop)
    faReqRetries,   \* `retries` of the request() invocation in flight
    faAll,          \* allApplications
    faCalls,        \* history: page number of every getApplicationsLightweight call
    faHttpPage,     \* history: number of HTTP attempts for the current page
    faServed,       \* history: the raw rows of every successful page response
    faDisturbed,    \* history: some HTTP attempt was answered with a non-OK status
    faProgress,     \* the last onProgress(page, fetchedCount) call
    faLast,         \* history: status of the last HTTP response, and whether
                    \* every response for the current page was a 429
    faError         \* the error the helper threw

faVars == <<faPc, faPage, faRetries, faReqRetries, faAll, faCalls,
            faHttpPage, faServed, faDisturbed, faProgress, faLast, faError>>

\* the upstream collection has at most this many pages
MaxPages == 3

\* const perPage = 100
perPage == 100

\* const maxRetries = 5 (the helper's retry loop)
helperMaxRetries == 5

\* numbers of rows a page response may carry
PageSizes == {0, 37, perPage}

\* the raw rows the upstream serves for page p when it answers with n rows
RawRows(p, n) ==
    [i \in 1..n |-> [id |-> (p - 1) * perPage + i,
                     candidate_id |-> 5000 + (p - 1) * perPage + i]]

\* rawApplications.map(app => ({id, candidate_id, candidate_name, ...})) for
\* rows without an embedded candidate object
ToLightweight(rows) ==
    [i \in 1..Len(rows) |->
        [id |-> rows[i].id,
         candidate_id |-> rows[i].candidate_id,
         candidate_name |-> <<"Candidate", rows[i].candidate_id>>]]

\* mutant: stop only on an empty page
HasMore_NonEmpty(rowCount, per_page) == rowCount > 0

\* hasMore: rawApplications.length === per_page
HasMore(rowCount, per_page) == rowCount = per_page

RECURSIVE Flatten(_)
Flatten(ss) == IF ss = <<>> THEN <<>> ELSE Head(ss) \o Flatten(Tail(ss))

faIdle ==
    /\ faPc = "idle"
    /\ faPage = 0
    /\ faRetries = 0
    /\ faReqRetries = 0
    /\ faAll = <<>>
    /\ faCalls = <<>>
    /\ faHttpPage = 0
    /\ faServed = <<>>
    /\ faDisturbed = FALSE
    /\ faProgress = NoValue
    /\ faLast = [status |-> 0, only429 |-> TRUE]
    /\ faError = NoValue

faInit ==
    /\ faPc = "loop"
    /\ faPage = 1
    /\ faRetries = 0
    /\ faReqRetries = 0
    /\ faAll = <<>>
    /\ faCalls = <<>>
    /\ faHttpPage = 0
    /\ faServed = <<>>
    /\ faDisturbed = FALSE
    /\ faProgress = NoValue
    /\ faLast = [status |-> 0, only429 |-> TRUE]
    /\ faError = NoValue

\* top of the retry loop: onProgress, then getApplicationsLightweight(page)
\* invokes request() with retries = 0
FetchPageCall ==
    /\ faPc = "loop"
    /\ faRetries < helperMaxRetries
    /\ faProgress' = [page |-> faPage, fetchedCount |-> Len(faAll)]
    /\ faCalls' = Append(faCalls, faPage)
    /\ faReqRetries' = 0
    /\ faPc' = "http"
    /\ UNCHANGED <<faPage, faRetries, faAll, faHttpPage, faServed,
                   faDisturbed, faLast, faError>>

\* one HTTP attempt of request() and everything that follows it up to the
\* next HTTP attempt: the 429 backoff of request(), or its throw and the
\* helper's catch, or the page being appended and the loop advancing
FetchPageHttp ==
    /\ faPc = "http"
    /\ \E status \in Statuses, body \in Bodies, n \in PageSizes :
        /\ (status # 200 => n = 0)
        /\ (n = perPage => faPage < MaxPages)
        /\ faHttpPage' = IF ResponseOk(status) /\ HasMore(n, perPage)
                         THEN 0 ELSE faHttpPage + 1
        /\ faDisturbed' = (faDisturbed \/ ~ResponseOk(status))
        /\ faLast' = [status |-> status,
                      only429 |-> IF ResponseOk(status) THEN HasMore(n, perPage)
                                  ELSE faLast.only429 /\ status = 429]
        /\ IF ResponseOk(status)
           THEN \* result = {applications, hasMore}; allApplications.push(...)
                /\ faServed' = Append(faServed, RawRows(faPage, n))
                /\ faAll' = faAll \o ToLightweight(RawRows(faPage, n))
                /\ faReqRetries' = 0
                /\ faRetries' = 0
                /\ faError' = faError
                /\ IF HasMore(n, perPage)
                   THEN /\ faPage' = faPage + 1
                        /\ faPc' = "loop"
                        /\ faProgress' = faProgress
                   ELSE /\ faPage' = faPage
                        /\ faPc' = "done"
                        /\ faProgress' = [page |-> faPage,
                                          fetchedCount |-> Len(faAll')]
           ELSE /\ UNCHANGED <<faServed, faAll, faPage, faProgress>>
                /\ IF ShouldRetry(status, faReqRetries)
                   THEN \* request() sleeps and calls itself with retries + 1
                        /\ faReqRetries' = faReqRetries + 1
                        /\ faPc' = "http"
                        /\ UNCHANGED <<faRetries, faError>>
                   ELSE \* request() throws; the helper's catch decides
                        /\ faReqRetries' = 0
                        /\ IF MessageIncludes429(ApiError(status, body))
                           THEN /\ faRetries' = faRetries + 1
                                /\ IF faRetries + 1 < helperMaxRetries
                                   THEN /\ faPc' = "loop"
                                        /\ faError' = faError
                                   ELSE /\ faPc' = "failed"
                                        /\ faError' = [kind |-> "error",
                                             text |-> "Max retries exceeded due to rate limiting"]
                           ELSE /\ faPc' = "failed"
                                /\ faRetries' = faRetries
                                /\ faError' = ApiError(status, body)
    /\ UNCHANGED faCalls


----------------------------------------------------------------------------
(* Screening: router.post('/') of the screening route, screenApplications, *)
(* formatFeedbackSection and parseScreeningResponse                        *)

VARIABLES
    scPc,           \* "idle" | "received" | "llm" | "responded"
    scBody,         \* body of POST /api/screen
    scRequest,      \* the ScreeningRequest handed to screenApplications
    scSystemPrompt, \* the `system` argument of anthropic.messages.create
    scLlmAnswer,    \* history: what the LLM call produced
    scWarned,       \* ids printed by console.warn('Missing screening results ...')
    scReturned,     \* outcome of screenApplications: value returned or error thrown
    scResponse      \* the HTTP response written by the route

scVars == <<scPc, scBody, scRequest, scSystemPrompt, scLlmAnswer, scWarned,
            scReturned, scResponse>>

\* most applications submitted in one screening call
MaxScreenApps == 3

\* most verdict objects in one LLM answer
MaxVerdicts == 2

\* application ids 101, 102, ...
ScreenAppIds == {100 + i : i \in 1..MaxScreenApps}

\* the application lists explored: non-empty lists of distinct ids, ascending
AscendingLists(S) ==
    {s \in UNION {[1..k -> S] : k \in 1..Cardinality(S)} :
        \A i \in 1..(Len(s) - 1) : s[i] < s[i + 1]}

Feedback1 == [candidate_name |-> "Ann", llm_recommendation |-> "GREEN",
              user_decision |-> "REJECT", user_reason |-> "no backend depth"]
Feedback2 == [candidate_name |-> "Bob", llm_recommendation |-> "RED",
              user_decision |-> "ADVANCE", user_reason |-> "strong referrals"]

\* "" stands for an absent / falsy value; feedback <<>> for absent or empty
ScreenBodies ==
    [job_id : {0, 42},
     job_title : {"", "Engineer"},
     job_requirements : {"", "5y Go"},
     applications : {JsArray(a) : a \in AscendingLists(ScreenAppIds) \cup {<<>>}}
                    \cup {NotAnArray},
     feedback : {<<>>, <<Feedback1>>, <<Feedback1, Feedback2>>}]

\* ---- JSON values as the model returns them
JUndef   == [t |-> "undef"]
JNull    == [t |-> "null"]
JStr(s)  == [t |-> "str", s |-> s]
JNum(n)  == [t |-> "num", n |-> n]
JArr(a)  == [t |-> "arr", a |-> a]
JObj(f)  == [t |-> "obj", f |-> f]

\* ---- values of the fields of a ScreeningResult as JavaScript holds them
VUndefined == [t |-> "undefined"]
VNaN       == [t |-> "NaN"]
VStr(s)    == [t |-> "str", s |-> s]
VNum(n)    == [t |-> "num", n |-> n]
VList(a)   == [t |-> "list", a |-> a]

VerdictFields == {"application_id", "recommendation", "confidence", "summary",
                  "key_factors", "concerns", "reasoning"}

StringFields == {"recommendation", "confidence", "summary", "reasoning"}
ArrayFields  == {"key_factors", "concerns"}

\* a complete verdict object for application id
WellFormed(id) ==
    [application_id |-> JNum(id),
     recommendation |-> JStr("green"),
     confidence     |-> JStr("High"),
     summary        |-> JStr("solid"),
     key_factors    |-> JArr(<<JStr("go"), JNum(7)>>),
     concerns       |-> JArr(<<>>),
     reasoning      |-> JStr("because")]

\* defective values a field may carry
DefectValues == {JUndef, JNull, JNum(5), JStr(""), JArr(<<JStr("x")>>)}

\* verdict objects with a defect: the first id's object with one field
\* defective, and the empty object
DefectPool ==
    {[WellFormed(101) EXCEPT ![f] = v] : f \in VerdictFields, v \in DefectValues}
    \cup {[f \in VerdictFields |-> JUndef]}

\* the JSON documents explored: arrays of complete verdicts (any ids, any
\* order, up to MaxVerdicts of them); a defective verdict alone, as a single
\* object or behind a complete one; an array holding null; scalars
JsonDocs ==
    {JArr(a) : a \in UNION {[1..k -> {JObj(WellFormed(id)) : id \in ScreenAppIds}] :
                             k \in 0..MaxVerdicts}}
    \cup {JObj(WellFormed(101))}
    \cup UNION {{JObj(d), JArr(<<JObj(d)>>), JArr(<<JObj(WellFormed(102)), JObj(d)>>)} :
                 d \in DefectPool}
    \cup {JArr(<<JNull>>), JNull, JNum(3)}

\* what the LLM call produces: an API error, a message without a text block,
\* or a text, possibly wrapped in a ``` fence, that is valid JSON or not
LlmAnswers ==
    {[kind |-> "apiError"], [kind |-> "noTextBlock"]}
    \cup {[kind |-> "text", fenced |-> fc, valid |-> FALSE, doc |-> JNull] : fc \in BOOLEAN}
    \cup {[kind |-> "text", fenced |-> fc, valid |-> TRUE, doc |-> d] :
            fc \in BOOLEAN, d \in JsonDocs}

\* String.prototype.toUpperCase on the strings explored
ToUpperCase(s) ==
    CASE s = "green" -> "GREEN"
      [] s = "High"  -> "HIGH"
      [] s = "solid" -> "SOLID"
      [] s = "because" -> "BECAUSE"
      [] s = "x" -> "X"
      [] OTHER -> s

\* String(v); an array is its elements joined by ","
RECURSIVE JsString(_)
JsString(v) ==
    CASE v.t = "str"   -> v.s
      [] v.t = "num"   -> ToString(v.n)
      [] v.t = "undef" -> "undefined"
      [] v.t = "null"  -> "null"
      [] v.t = "arr"   -> IF v.a = <<>> THEN ""
                          ELSE IF Len(v.a) = 1
                          THEN (IF v.a[1].t \in {"undef", "null"} THEN ""
                                ELSE JsString(v.a[1]))
                          ELSE "joined_elements"
      [] OTHER         -> "[object Object]"

\* JavaScript falsiness of a JSON value
Falsy(v) ==
    \/ v.t \in {"undef", "null"}
    \/ (v.t = "str" /\ v.s = "")
    \/ (v.t = "num" /\ v.n = 0)

\* Number(v)
JsNumber(v) ==
    CASE v.t = "num"  -> VNum(v.n)
      [] v.t = "null" -> VNum(0)
      [] v.t = "str"  -> IF v.s = "" THEN VNum(0) ELSE VNaN
      [] v.t = "arr"  -> IF v.a = <<>> THEN VNum(0) ELSE VNaN
      [] OTHER        -> VNaN

\* (v as string)?.toUpperCase(): undefined and null short-circuit, a string is
\* upper-cased, any other value has no toUpperCase method and raises TypeError
UpperThrows(v) == v.t \notin {"undef", "null", "str"}

OptionalUpper(v) ==
    IF v.t = "str" THEN VStr(ToUpperCase(v.s)) ELSE VUndefined

\* String(v || '')
StringOrEmpty(v) == IF Falsy(v) THEN VStr("") ELSE VStr(JsString(v))

\* Array.isArray(v) ? v.map(String) : []
StringList(v) ==
    IF v.t = "arr" THEN VList([i \in 1..Len(v.a) |-> JsString(v.a[i])]) ELSE VList(<<>>)

\* the fields of an element of `results` as property access sees them: a
\* non-object primitive has none of them
FieldsOf(elem) == IF elem.t = "obj" THEN elem.f ELSE [f \in VerdictFields |-> JUndef]

\* property access on null or undefined raises TypeError
ElementThrows(elem) ==
    \/ elem.t \in {"null", "undef"}
    \/ UpperThrows(FieldsOf(elem).recommendation)
    \/ UpperThrows(FieldsOf(elem).confidence)

\* the object literal built by results.map
MapVerdict(elem) ==
    LET r == FieldsOf(elem) IN
    [application_id |-> JsNumber(r.application_id),
     recommendation |-> OptionalUpper(r.recommendation),
     confidence     |-> OptionalUpper(r.confidence),
     summary        |-> StringOrEmpty(r.summary),
     key_factors    |-> StringList(r.key_factors),
     concerns       |-> StringList(r.concerns),
     reasoning      |-> StringOrEmpty(r.reasoning)]

\* content.match(/```(?:json)?\n?([\s\S]*?)```/): the fence, when present, is
\* stripped; JSON.parse then sees the document
ExtractJson(text) == [valid |-> text.valid, doc |-> text.doc]

\* parseScreeningResponse: [ok |-> FALSE] stands for
\* throw new Error('Failed to parse screening response')
parseScreeningResponse(text) ==
    LET json == ExtractJson(text)
        results == IF json.doc.t = "arr" THEN json.doc.a ELSE <<json.doc>>
    IN  IF ~json.valid THEN [ok |-> FALSE, results |-> <<>>]
        ELSE IF \E i \in 1..Len(results) : ElementThrows(results[i])
        THEN [ok |-> FALSE, results |-> <<>>]
        ELSE [ok |-> TRUE,
              results |-> [i \in 1..Len(results) |-> MapVerdict(results[i])]]

\* one line of the calibration section
FeedbackExample(f) ==
    [candidate_name |-> f.candidate_name,
     recommended |-> f.llm_recommendation,
     action |-> IF f.user_decision = "ADVANCE" THEN "ADVANCED (you said RED)"
                ELSE "REJECTED (you said GREEN)",
     reason |-> f.user_reason]

\* formatFeedbackSection: '' when feedback is absent or empty
formatFeedbackSection(feedback) ==
    IF feedback = <<>> THEN <<>>
    ELSE [i \in 1..Len(feedback) |-> FeedbackExample(feedback[i])]

\* SYSTEM_PROMPT with the placeholders replaced, plus the feedback section
SystemPrompt(request) ==
    [job_title |-> request.job_title,
     job_requirements |-> IF request.job_requirements = ""
                          THEN "No specific requirements provided."
                          ELSE request.job_requirements,
     calibration |-> formatFeedbackSection(request.feedback)]

\* the object literal the route passes to screenApplications: it has no
\* feedback property
RouteRequest(body) ==
    [job_id |-> body.job_id,
     job_title |-> body.job_title,
     job_requirements |-> body.job_requirements,
     applications |-> body.applications.items,
     feedback |-> <<>>]

\* mutant: every submitted id is reported missing
MissingIds_All(applications, results) == applications

\* request.applications.filter(a => !resultIds.has(a.application_id)).map(...)
MissingIds(applications, results) ==
    LET resultIds == {results[i].application_id : i \in 1..Len(results)}
        absent(id) == VNum(id) \notin resultIds
    IN  SelectSeq(applications, absent)

scIdle ==
    /\ scPc = "idle"
    /\ scBody = NoValue
    /\ scRequest = NoValue
    /\ scSystemPrompt = NoValue
    /\ scLlmAnswer = NoValue
    /\ scWarned = <<>>
    /\ scReturned = NoValue
    /\ scResponse = NoValue

scInit ==
    /\ scPc = "received"
    /\ scBody \in ScreenBodies
    /\ scRequest = NoValue
    /\ scSystemPrompt = NoValue
    /\ scLlmAnswer = NoValue
    /\ scWarned = <<>>
    /\ scReturned = NoValue
    /\ scResponse = NoValue

\* the route validates the body and calls screenApplications, which builds the
\* system prompt and the content and sends the request to the LLM
ScreenReceive ==
    /\ scPc = "received"
    /\ IF scBody.job_id = 0 \/ scBody.job_title = ""
       THEN /\ scPc' = "responded"
            /\ scResponse' = [status |-> 400, error |-> "job_id and job_title are required"]
            /\ UNCHANGED <<scRequest, scSystemPrompt>>
       ELSE IF ~IsNonEmptyArray(scBody.applications)
       THEN /\ scPc' = "responded"
            /\ scResponse' = [status |-> 400,
                              error |-> "applications must be a non-empty array"]
            /\ UNCHANGED <<scRequest, scSystemPrompt>>
       ELSE /\ scPc' = "llm"
            /\ scRequest' = RouteRequest(scBody)
            /\ scSystemPrompt' = SystemPrompt(RouteRequest(scBody))
            /\ scResponse' = scResponse
    /\ UNCHANGED <<scBody, scLlmAnswer, scWarned, scReturned>>

\* the LLM call settles; screenApplications parses, warns about missing ids
\* and returns `results`; the route answers {results} or, on any throw, 500
ScreenLlmSettles ==
    /\ scPc = "llm"
    /\ \E answer \in LlmAnswers :
        LET parsed == parseScreeningResponse(answer) IN
        /\ scLlmAnswer' = answer
        /\ IF answer.kind # "text"
           THEN /\ scReturned' = [kind |-> "thrown",
                                  error |-> IF answer.kind = "apiError"
                                            THEN "LLM API error"
                                            ELSE "No text content in Claude response"]
                /\ scWarned' = scWarned
           ELSE IF ~parsed.ok
           THEN /\ scReturned' = [kind |-> "thrown",
                                  error |-> "Failed to parse screening response"]
                /\ scWarned' = scWarned
           ELSE /\ scReturned' = [kind |-> "returned", results |-> parsed.results]
                /\ scWarned' = MissingIds(scRequest.applications, parsed.results)
        /\ scResponse' =
             IF scReturned'.kind = "returned"
             THEN [status |-> 200, results |-> scReturned'.results]
             ELSE [status |-> 500, error |-> "Failed to screen applications"]
    /\ scPc' = "responded"
    /\ UNCHANGED <<scBody, scRequest, scSystemPrompt>>


----------------------------------------------------------------------------
(* Highlights: generateHighlights, processBatch, rankWinners, withRetry    *)

VARIABLES
    hlPc,          \* "idle" | "start" | "batch" | "rank" | "done" | "failed"
    hlCandidates,  \* input.candidates
    hlTopN,        \* input.top_n
    hlBatch,       \* the loop variable i, counted from 1
    hlAttempt,     \* `attempt` of the withRetry loop in flight
    hlLlmCalls,    \* history: anthropic.messages.create invocations of the call in flight
    hlBatchCalls,  \* history: every processBatch invocation
    hlAllWinners,  \* allWinners
    hlProgress,    \* history: every onBatchProgress call
    hlRankInput,   \* history: the winners handed to rankWinners (<<>>: not called)
    hlResponse,    \* the outcome of the last anthropic.messages.create that settled
    hlResult       \* the value returned or the error thrown

hlVars == <<hlPc, hlCandidates, hlTopN, hlBatch, hlAttempt, hlLlmCalls, hlBatchCalls,
            hlAllWinners, hlProgress, hlRankInput, hlResponse, hlResult>>

\* largest candidate pool explored
MaxCandidates == 250

\* longest final ranking answer explored
MaxRanked == 3

\* const BATCH_SIZE = 100
BATCH_SIZE == 100

\* withRetry's maxRetries for a batch call
batchMaxRetries == 3

\* withRetry's maxRetries for the final ranking call
rankMaxRetries == 5

\* pool sizes explored: around every multiple of half a batch
CandidateCounts == {n \in 0..MaxCandidates : n % 50 \in {0, 1}}

TopNs == {1, 10, 100}

\* the candidate pool of size n: application ids 1..n in input order
CandidatePool(n) ==
    [i \in 1..n |-> [application_id |-> i, candidate_id |-> 7000 + i]]

\* Array.prototype.slice(start, end)
Slice(s, start, end) ==
    IF start >= Len(s) THEN <<>> ELSE SubSeq(s, start + 1, Min(end, Len(s)))

\* mutant: one batch more than the pool fills
NumBatches_OneMore(n) == CeilDiv(n, BATCH_SIZE) + 1

\* Math.ceil(candidates.length / BATCH_SIZE)
NumBatches(n) == CeilDiv(n, BATCH_SIZE)

\* mutant: the 1.5x buffer is dropped
WinnersPerBatch_NoBuffer(topN, numBatches) == CeilDiv(topN, numBatches)

\* Math.ceil((top_n * 1.5) / numBatches), for numBatches > 0; top_n * 1.5 is
\* 3 * top_n / 2 exactly
WinnersPerBatch(topN, numBatches) == CeilDiv(3 * topN, 2 * numBatches)

\* candidates.slice(batchStart, batchStart + BATCH_SIZE) of iteration i (from 1)
BatchOf(candidates, i) ==
    Slice(candidates, (i - 1) * BATCH_SIZE, (i - 1) * BATCH_SIZE + BATCH_SIZE)

\* the record of one processBatch invocation
BatchCall(candidates, topN, i) ==
    [batchNum |-> i,
     totalBatches |-> NumBatches(Len(candidates)),
     candidates |-> BatchOf(candidates, i),
     winnersPerBatch |-> WinnersPerBatch(topN, NumBatches(Len(candidates)))]

\* an error as withRetry reads it: error.status, error.code, error.message,
\* error.cause?.code
LlmError(status, code, message, causeCode) ==
    [status |-> status, code |-> code, message |-> message, causeCode |-> causeCode]

\* errors an LLM call may raise: rate limit, server error, bad request, a
\* timeout and a reset reported by code, a connection error reported by
\* message only, a reset reported by the cause only
LlmErrors == {LlmError(429, "none", "rate_limit_error", "none"),
              LlmError(500, "none", "api_error", "none"),
              LlmError(400, "none", "invalid_request_error", "none"),
              LlmError(0, "ETIMEDOUT", "connect ETIMEDOUT", "none"),
              LlmError(0, "none", "Connection error.", "none"),
              LlmError(0, "none", "fetch failed", "ECONNRESET")}

\* error.message?.includes(needle) for the messages of LlmErrors
MessageIncludes(message, needle) ==
    \/ needle = "Connection error" /\ message = "Connection error."
    \/ needle = "socket hang up" /\ message = "socket hang up"

\* isConnectionError of withRetry
IsConnectionError(e) ==
    \/ e.code = "ECONNRESET"
    \/ e.code = "ETIMEDOUT"
    \/ MessageIncludes(e.message, "Connection error")
    \/ MessageIncludes(e.message, "socket hang up")
    \/ e.causeCode = "ECONNRESET"

\* isRetryable of withRetry
IsRetryable(e) == e.status \in {429, 500, 502, 503} \/ IsConnectionError(e)

\* mutant: one attempt more than maxRetries
RetryRethrows_OneMore(e, attempt, maxAttempts) ==
    ~(e.status \in {429, 500, 502, 503} \/ e.code \in {"ECONNRESET", "ETIMEDOUT"}
      \/ e.message = "Connection error." \/ e.causeCode = "ECONNRESET")
    \/ attempt = maxAttempts + 1

\* withRetry rethrows when !isRetryable || attempt === maxRetries
RetryRethrows(e, attempt, maxAttempts) == ~IsRetryable(e) \/ attempt = maxAttempts

Winner(id) == [application_id |-> id, score |-> 90]

\* the first k elements of s
Take(s, k) == SubSeq(s, 1, Min(k, Len(s)))

\* winner lists a batch answer may hold for a batch and a requested count w:
\* none, one, exactly w, one more than asked, a repeated id, an id of no
\* candidate of the batch
WinnerLists(batch, w) ==
    LET ids == [i \in 1..Len(batch) |-> Winner(batch[i].application_id)] IN
    {Take(ids, k) : k \in {0, 1, w, w + 1}}
    \cup {<<ids[1], ids[1]>>, <<Winner(0)>>}

\* what one LLM call of processBatch may produce
BatchAnswers(batch, w) ==
    {[kind |-> "error", error |-> e] : e \in LlmErrors}
    \cup {[kind |-> "noTextBlock"], [kind |-> "invalidJson"], [kind |-> "notArray"]}
    \cup {[kind |-> "array", items |-> ws] : ws \in WinnerLists(batch, w)}

\* mutant: an answer that does not parse still yields a winner
ProcessBatchReturn_KeepsOne(answer) ==
    IF answer.kind = "array" THEN answer.items ELSE <<Winner(1)>>

\* the value processBatch returns for an answer that is not an error
ProcessBatchReturn(answer) ==
    IF answer.kind = "array" THEN answer.items ELSE <<>>

\* candidateMap.get(winner.application_id), then push {...winner, candidate}
EnrichWinners(batch, batchWinners) ==
    LET ids == {batch[i].application_id : i \in 1..Len(batch)}
        known(w) == w.application_id \in ids
        candidateOf(id) == CHOOSE c \in Range(batch) : c.application_id = id
        kept == SelectSeq(batchWinners, known)
    IN  [i \in 1..Len(kept) |->
            [application_id |-> kept[i].application_id,
             score |-> kept[i].score,
             candidate |-> candidateOf(kept[i].application_id)]]

\* the tier rules of HIGHLIGHTS_SYSTEM_PROMPT: what a model following the
\* prompt writes into "tier" for a rank
PromptTier(rank) ==
    IF rank <= 10 THEN "TOP" ELSE IF rank <= 25 THEN "STRONG" ELSE "GOOD"

\* the rank the answer's i-th item of k carries: as asked (1..k), listed worst
\* first, one rank per tier band, with gaps, all equal
RankSchemes == {"dense", "reversed", "banded", "gapped", "tied"}

ItemRank(scheme, i, k) ==
    CASE scheme = "dense" -> i
      [] scheme = "reversed" -> k + 1 - i
      [] scheme = "banded" -> IF i = 1 THEN 1 ELSE IF i = 2 THEN 11 ELSE 23 + i
      [] scheme = "gapped" -> 2 * i
      [] scheme = "tied" -> 1

\* the tier the answer's item carries: the prompt's band of its rank, always
\* GOOD, always TOP, or a value outside the three tiers (a missing field too)
TierSchemes == {"prompt", "good", "top", "other"}

ItemTier(scheme, rank) ==
    CASE scheme = "prompt" -> PromptTier(rank)
      [] scheme = "good" -> "GOOD"
      [] scheme = "top" -> "TOP"
      [] scheme = "other" -> "none"

\* the answers explored: every tier scheme with dense ranks, every rank scheme
\* with the prompt's tiers, and three tier bands all answered GOOD
AnswerStyles ==
    {st \in RankSchemes \X TierSchemes :
        st[1] = "dense" \/ st[2] = "prompt" \/ st = <<"banded", "good">>}

\* what the LLM call of rankWinners may produce for the winners handed to it
RankAnswers(winners, topN) ==
    {[kind |-> "error", error |-> e] : e \in LlmErrors}
    \cup {[kind |-> "noTextBlock"], [kind |-> "invalidJson"], [kind |-> "notArray"]}
    \cup {[kind |-> "array",
           items |-> [i \in 1..k |-> [application_id |-> winners[i].application_id,
                                      rank |-> ItemRank(st[1], i, k),
                                      score |-> winners[i].score,
                                      tier |-> ItemTier(st[2], ItemRank(st[1], i, k))]]] :
            k \in {0, Min(1, Len(winners)), Min(MaxRanked, Min(topN, Len(winners)))},
            st \in AnswerStyles}
    \* an entry more than asked for
    \cup {[kind |-> "array",
           items |-> [i \in 1..Min(MaxRanked + 1, Min(topN + 1, Len(winners))) |->
                         [application_id |-> winners[i].application_id,
                          rank |-> i, score |-> winners[i].score,
                          tier |-> PromptTier(i)]]]}
    \* an application id that no winner has
    \cup {[kind |-> "array",
           items |-> <<[application_id |-> 0, rank |-> 1, score |-> 90,
                        tier |-> PromptTier(1)]>>]}

\* insertion of x into a list sorted by rank, after the entries of equal rank
RECURSIVE InsertByRank(_, _)
InsertByRank(sorted, x) ==
    IF sorted = <<>> THEN <<x>>
    ELSE IF x.rank < Head(sorted).rank THEN <<x>> \o sorted
    ELSE <<Head(sorted)>> \o InsertByRank(Tail(sorted), x)

\* Array.prototype.sort((a, b) => a.rank - b.rank): stable
RECURSIVE SortByRank(_)
SortByRank(s) ==
    IF s = <<>> THEN <<>>
    ELSE InsertByRank(SortByRank(SubSeq(s, 1, Len(s) - 1)), s[Len(s)])

\* parsed.map(item => ({rank, application_id, candidate_id, ..., tier})).sort(...)
RankWinnersReturn(winners, items) ==
    LET known(id) == \E i \in 1..Len(winners) : winners[i].application_id = id
        \* new Map(...): the last winner with an id is the one the map holds
        candidateOf(id) ==
            winners[CHOOSE i \in 1..Len(winners) :
                      /\ winners[i].application_id = id
                      /\ \A j \in (i + 1)..Len(winners) : winners[j].application_id # id
                   ].candidate
    IN  SortByRank(
          [i \in 1..Len(items) |->
            [rank |-> items[i].rank,
             application_id |-> items[i].application_id,
             candidate_id |-> IF known(items[i].application_id)
                              THEN candidateOf(items[i].application_id).candidate_id
                              ELSE 0,
             score |-> items[i].score,
             tier |-> IF items[i].tier \in {"TOP", "STRONG", "GOOD"}
                      THEN items[i].tier ELSE "GOOD"]])

\* what the caller sees of a settled LLM call before it reads the text: the
\* error raised, or the kind of content
ResponseOf(answer) ==
    IF answer.kind = "error" THEN answer ELSE [kind |-> answer.kind]

hlIdle ==
    /\ hlPc = "idle"
    /\ hlCandidates = <<>>
    /\ hlTopN = 0
    /\ hlBatch = 0
    /\ hlAttempt = 0
    /\ hlLlmCalls = 0
    /\ hlBatchCalls = <<>>
    /\ hlAllWinners = <<>>
    /\ hlProgress = <<>>
    /\ hlRankInput = <<>>
    /\ hlResponse = NoValue
    /\ hlResult = NoValue

hlInit ==
    /\ hlPc = "start"
    /\ \E n \in CandidateCounts : hlCandidates = CandidatePool(n)
    /\ hlTopN \in TopNs
    /\ hlBatch = 0
    /\ hlAttempt = 0
    /\ hlLlmCalls = 0
    /\ hlBatchCalls = <<>>
    /\ hlAllWinners = <<>>
    /\ hlProgress = <<>>
    /\ hlRankInput = <<>>
    /\ hlResponse = NoValue
    /\ hlResult = NoValue

\* generateHighlights up to the first processBatch call (or, for an empty
\* pool, to its return)
HighlightsStart ==
    /\ hlPc = "start"
    /\ IF NumBatches(Len(hlCandidates)) = 0
       THEN /\ hlPc' = "done"
            /\ hlResult' = [kind |-> "returned", value |-> <<>>]
            /\ UNCHANGED <<hlBatch, hlAttempt, hlLlmCalls, hlBatchCalls>>
       ELSE /\ hlPc' = "batch"
            /\ hlBatch' = 1
            /\ hlAttempt' = 1
            /\ hlLlmCalls' = 1
            /\ hlBatchCalls' = <<BatchCall(hlCandidates, hlTopN, 1)>>
            /\ hlResult' = hlResult
    /\ UNCHANGED <<hlCandidates, hlTopN, hlAllWinners, hlProgress, hlRankInput, hlResponse>>

\* the LLM call of the batch in flight settles: withRetry retries or rethrows
\* an error; otherwise processBatch returns, the winners are enriched and
\* appended, the progress callback runs, and the loop goes on to the next
\* batch, to the final ranking, or to the empty result
HighlightsBatchSettles ==
    /\ hlPc = "batch"
    /\ \E answer \in BatchAnswers(hlBatchCalls[hlBatch].candidates,
                                  hlBatchCalls[hlBatch].winnersPerBatch) :
      /\ hlResponse' = ResponseOf(answer)
      /\ IF answer.kind = "error"
           THEN IF RetryRethrows(answer.error, hlAttempt, batchMaxRetries)
                THEN /\ hlPc' = "failed"
                     /\ hlResult' = [kind |-> "thrown", error |-> answer.error]
                     /\ UNCHANGED <<hlBatch, hlAttempt, hlLlmCalls, hlBatchCalls,
                                    hlAllWinners, hlProgress, hlRankInput>>
                ELSE /\ hlAttempt' = hlAttempt + 1
                     /\ hlLlmCalls' = hlLlmCalls + 1
                     /\ UNCHANGED <<hlPc, hlBatch, hlBatchCalls, hlAllWinners, hlProgress,
                                    hlRankInput, hlResult>>
           ELSE LET all == hlAllWinners \o
                             EnrichWinners(hlBatchCalls[hlBatch].candidates,
                                           ProcessBatchReturn(answer))
                    total == NumBatches(Len(hlCandidates))
                IN  /\ hlAllWinners' = all
                    /\ hlProgress' = Append(hlProgress,
                                       [batch |-> hlBatch, totalBatches |-> total,
                                        winnersFound |-> Len(all)])
                    /\ hlAttempt' = 1
                    /\ hlLlmCalls' = 1
                    /\ IF hlBatch < total
                       THEN /\ hlBatch' = hlBatch + 1
                            /\ hlBatchCalls' = Append(hlBatchCalls,
                                                 BatchCall(hlCandidates, hlTopN, hlBatch + 1))
                            /\ UNCHANGED <<hlPc, hlRankInput, hlResult>>
                       ELSE IF Len(all) = 0
                       THEN /\ hlPc' = "done"
                            /\ hlResult' = [kind |-> "returned", value |-> <<>>]
                            /\ UNCHANGED <<hlBatch, hlBatchCalls, hlRankInput>>
                       ELSE /\ hlPc' = "rank"
                            /\ hlRankInput' = all
                            /\ UNCHANGED <<hlBatch, hlBatchCalls, hlResult>>
    /\ UNCHANGED <<hlCandidates, hlTopN>>

\* the LLM call of rankWinners settles
HighlightsRankSettles ==
    /\ hlPc = "rank"
    /\ \E answer \in RankAnswers(hlRankInput, hlTopN) :
      /\ hlResponse' = ResponseOf(answer)
      /\ IF answer.kind = "error"
           THEN IF RetryRethrows(answer.error, hlAttempt, rankMaxRetries)
                THEN /\ hlPc' = "failed"
                     /\ hlResult' = [kind |-> "thrown", error |-> answer.error]
                     /\ UNCHANGED <<hlAttempt, hlLlmCalls>>
                ELSE /\ hlAttempt' = hlAttempt + 1
                     /\ hlLlmCalls' = hlLlmCalls + 1
                     /\ UNCHANGED <<hlPc, hlResult>>
           ELSE IF answer.kind = "array"
           THEN /\ hlPc' = "done"
                /\ hlResult' = [kind |-> "returned",
                                value |-> RankWinnersReturn(hlRankInput, answer.items)]
                /\ UNCHANGED <<hlAttempt, hlLlmCalls>>
           ELSE /\ hlPc' = "failed"
                /\ hlResult' = [kind |-> "thrown",
                                error |-> LlmError(0, "none", answer.kind, "none")]
                /\ UNCHANGED <<hlAttempt, hlLlmCalls>>
    /\ UNCHANGED <<hlCandidates, hlTopN, hlBatch, hlBatchCalls, hlAllWinners,
                   hlProgress, hlRankInput>>


----------------------------------------------------------------------------
(* Progress streams: POST /api/search/index/:jobId,                        *)
(* GET /api/search/export/:jobId, GET /api/search/highlights/:jobId        *)

VARIABLES
    smPc,         \* "idle" | "start" | "checkEmbedding" | "getJobs" | "fetching"
                  \* | "processing" | "analyzing" | "ranking" | "closed"
    smEndpoint,   \* "index" | "export" | "highlights" | "none"
    smEvents,     \* history: every sendEvent(event, data) of the response
    smClosed,     \* res.end() was called
    smPage,       \* `page` of fetchAllApplicationsLightweight
    smRetries,    \* `retries` of fetchAllApplicationsLightweight
    smTotal,      \* filteredApplications.length
    smProcessed,  \* `processed` of the last progress event
    smBatch       \* batch number of the processBatch call in flight

smVars == <<smPc, smEndpoint, smEvents, smClosed, smPage, smRetries, smTotal,
            smProcessed, smBatch>>

\* most pages a fetch of the stream goes through
MaxStreamPages == 2

\* largest number of applications in Application Review explored
MaxStreamTotal == 101

StreamEndpoints == {"index", "export", "highlights"}

\* filteredApplications.length: around every multiple of the smallest batch
StreamTotals == {n \in 0..MaxStreamTotal : n % 25 \in {0, 1}}

\* sendEvent('status', { phase, ... })
StatusEvent(phase) == [event |-> "status", phase |-> phase, n |-> 0]

\* sendEvent(event, { ... }) of the other events; n is the page, the
\* processed count or the batch number the event carries
DataEvent(event, n) == [event |-> event, phase |-> "none", n |-> n]

\* const BATCH_SIZE of the extraction loop of each handler
StreamBatchSize(endpoint) == IF endpoint = "index" THEN 25 ELSE 50

\* the phase announced before the extraction loop
ProcessingPhase(endpoint) ==
    CASE endpoint = "index" -> "processing"
      [] endpoint = "export" -> "processing"
      [] endpoint = "highlights" -> "extracting"

\* mutant: the terminal event is written before the closing status
SendComplete_StatusLast(events) ==
    events \o <<DataEvent("complete", 0), StatusEvent("complete")>>

\* sendEvent('status', { phase: 'complete' }); sendEvent('complete', result)
SendComplete(events) ==
    events \o <<StatusEvent("complete"), DataEvent("complete", 0)>>

\* sendEvent('error', { message })
SendError(events) == events \o <<DataEvent("error", 0)>>

\* the handler from the end of the extraction loop to its next await or to
\* res.end(): index and export complete; highlights announces the analysis
\* and calls generateHighlights, which returns at once for an empty pool
AfterExtraction(endpoint, events, total) ==
    IF endpoint = "highlights"
    THEN IF NumBatches(total) = 0
         THEN [pc |-> "closed", closed |-> TRUE, batch |-> 0,
               events |-> SendComplete(events \o <<StatusEvent("analyzing")>>)]
         ELSE [pc |-> "analyzing", closed |-> FALSE, batch |-> 1,
               events |-> events \o <<StatusEvent("analyzing")>>]
    ELSE [pc |-> "closed", closed |-> TRUE, batch |-> 0,
          events |-> SendComplete(events)]

smIdle ==
    /\ smPc = "idle"
    /\ smEndpoint = "none"
    /\ smEvents = <<>>
    /\ smClosed = FALSE
    /\ smPage = 0
    /\ smRetries = 0
    /\ smTotal = 0
    /\ smProcessed = 0
    /\ smBatch = 0

smInit ==
    /\ smPc = "start"
    /\ smEndpoint \in StreamEndpoints
    /\ smEvents = <<>>
    /\ smClosed = FALSE
    /\ smPage = 0
    /\ smRetries = 0
    /\ smTotal = 0
    /\ smProcessed = 0
    /\ smBatch = 0

\* the handler up to its first await: headers flushed, status(init) sent
StreamOpen ==
    /\ smPc = "start"
    /\ smEvents' = smEvents \o <<StatusEvent("init")>>
    /\ smPc' = IF smEndpoint = "index" THEN "checkEmbedding" ELSE "getJobs"
    /\ UNCHANGED <<smEndpoint, smClosed, smPage, smRetries, smTotal, smProcessed,
                   smBatch>>

\* index only: checkEmbeddingStatus() settles
StreamEmbeddingStatus ==
    /\ smPc = "checkEmbedding"
    /\ \E available \in BOOLEAN :
        IF available
        THEN /\ smEvents' = smEvents \o <<StatusEvent("init")>>
             /\ smPc' = "getJobs"
             /\ smClosed' = smClosed
        ELSE /\ smEvents' = SendError(smEvents)
             /\ smPc' = "closed"
             /\ smClosed' = TRUE
    /\ UNCHANGED <<smEndpoint, smPage, smRetries, smTotal, smProcessed, smBatch>>

\* greenhouseAPI.getJobs() settles: the job is found, is not found, or the
\* call throws
StreamGetJobs ==
    /\ smPc = "getJobs"
    /\ \E outcome \in {"found", "notFound", "throws"} :
        IF outcome = "found"
        THEN /\ smEvents' = smEvents \o <<StatusEvent("fetching")>>
             /\ smPc' = "fetching"
             /\ smPage' = 1
             /\ smClosed' = smClosed
        ELSE /\ smEvents' = SendError(smEvents)
             /\ smPc' = "closed"
             /\ smPage' = smPage
             /\ smClosed' = TRUE
    /\ UNCHANGED <<smEndpoint, smRetries, smTotal, smProcessed, smBatch>>

\* one attempt at a page inside fetchAllApplicationsLightweight: onProgress,
\* then getApplicationsLightweight settles: rate limited (retry, or give up
\* after maxRetries), another error, a full page, or the last page; after
\* the last page the final onProgress runs, the applications are filtered,
\* the next phase is announced and the extraction loop starts
StreamFetchPage ==
    /\ smPc = "fetching"
    /\ LET sent == smEvents \o <<DataEvent("fetching", smPage)>> IN
       \E outcome \in {"rateLimited", "throws", "hasMore", "lastPage"} :
        CASE outcome = "rateLimited" ->
               IF smRetries + 1 < helperMaxRetries
               THEN /\ smRetries' = smRetries + 1
                    /\ smEvents' = sent
                    /\ UNCHANGED <<smPc, smClosed, smPage, smTotal, smBatch>>
               ELSE /\ smRetries' = smRetries + 1
                    /\ smEvents' = SendError(sent)
                    /\ smPc' = "closed"
                    /\ smClosed' = TRUE
                    /\ UNCHANGED <<smPage, smTotal, smBatch>>
          [] outcome = "throws" ->
               /\ smEvents' = SendError(sent)
               /\ smPc' = "closed"
               /\ smClosed' = TRUE
               /\ UNCHANGED <<smPage, smRetries, smTotal, smBatch>>
          [] outcome = "hasMore" ->
               /\ smPage < MaxStreamPages
               /\ smPage' = smPage + 1
               /\ smRetries' = 0
               /\ smEvents' = sent
               /\ UNCHANGED <<smPc, smClosed, smTotal, smBatch>>
          [] outcome = "lastPage" ->
               \E total \in StreamTotals :
                 LET announced == sent \o <<DataEvent("fetching", smPage),
                                            StatusEvent(ProcessingPhase(smEndpoint))>>
                     after == AfterExtraction(smEndpoint, announced, total)
                 IN  /\ smTotal' = total
                     /\ smRetries' = 0
                     /\ smPage' = smPage
                     /\ IF total = 0
                        THEN /\ smEvents' = after.events
                             /\ smPc' = after.pc
                             /\ smClosed' = after.closed
                             /\ smBatch' = after.batch
                        ELSE /\ smEvents' = announced
                             /\ smPc' = "processing"
                             /\ UNCHANGED <<smClosed, smBatch>>
    /\ UNCHANGED <<smEndpoint, smProcessed>>

\* one batch of the extraction loop settles (Promise.allSettled / Promise.all
\* over extraction that never rejects): a progress event, then the next batch
\* or the code after the loop
StreamExtractBatch ==
    /\ smPc = "processing"
    /\ LET processed == Min(smProcessed + StreamBatchSize(smEndpoint), smTotal)
           sent == smEvents \o <<DataEvent("progress", processed)>>
           after == AfterExtraction(smEndpoint, sent, smTotal)
       IN  /\ smProcessed' = processed
           /\ IF processed < smTotal
              THEN /\ smEvents' = sent
                   /\ UNCHANGED <<smPc, smClosed, smBatch>>
              ELSE /\ smEvents' = after.events
                   /\ smPc' = after.pc
                   /\ smClosed' = after.closed
                   /\ smBatch' = after.batch
    /\ UNCHANGED <<smEndpoint, smPage, smRetries, smTotal>>

\* highlights only: the processBatch call in flight settles: it throws, or
\* onBatchProgress sends a batch event and the loop goes on to the next
\* batch, to rankWinners, or (no winner at all) to the empty result
StreamHighlightsBatch ==
    /\ smPc = "analyzing"
    /\ \E outcome \in {"throws", "returns"}, anyWinner \in BOOLEAN :
        IF outcome = "throws"
        THEN /\ smEvents' = SendError(smEvents)
             /\ smPc' = "closed"
             /\ smClosed' = TRUE
             /\ smBatch' = smBatch
        ELSE LET sent == smEvents \o <<DataEvent("batch", smBatch)>> IN
             IF smBatch < NumBatches(smTotal)
             THEN /\ smEvents' = sent
                  /\ smBatch' = smBatch + 1
                  /\ UNCHANGED <<smPc, smClosed>>
             ELSE IF anyWinner
             THEN /\ smEvents' = sent
                  /\ smPc' = "ranking"
                  /\ UNCHANGED <<smClosed, smBatch>>
             ELSE /\ smEvents' = SendComplete(sent)
                  /\ smPc' = "closed"
                  /\ smClosed' = TRUE
                  /\ smBatch' = smBatch
    /\ UNCHANGED <<smEndpoint, smPage, smRetries, smTotal, smProcessed>>

\* highlights only: rankWinners settles
StreamHighlightsRank ==
    /\ smPc = "ranking"
    /\ \E outcome \in {"throws", "returns"} :
        smEvents' = IF outcome = "throws" THEN SendError(smEvents)
                    ELSE SendComplete(smEvents)
    /\ smPc' = "closed"
    /\ smClosed' = TRUE
    /\ UNCHANGED <<smEndpoint, smPage, smRetries, smTotal, smProcessed, smBatch>>


----------------------------------------------------------------------------
(* Embedding index: one JSON file per job under EMBEDDINGS_DIR             *)

VARIABLES
    ixFiles,    \* per job id: the content of job-<id>.json
    ixCalls,    \* indexCandidate calls awaiting generateEmbedding
    ixOps,      \* operations started so far
    ixLast,     \* the last operation that finished and what it gave
    ixSaved,    \* history: the indexCandidate calls that saved since the job's
                \* file was last deleted, and whether another call for the job
                \* and another application was waiting for its embedding then
    rbPc,       \* index rebuild: "idle" | "start" | "batch" | "done"
    rbJob,      \* jobId of the rebuild
    rbApps,     \* filteredApplications (application ids) of the rebuild
    rbNext,     \* `i` of the rebuild loop: applications before it are done
    rbBefore,   \* history: the file of the job when the rebuild cleared it
    rbForeign   \* a writer other than the rebuild wrote the job since its clearIndex

ixVars == <<ixFiles, ixCalls, ixOps, ixLast, ixSaved, rbPc, rbJob, rbApps, rbNext, rbBefore,
            rbForeign>>

\* operations explored in one run
MaxIndexOps == 3

\* indexCandidate calls awaiting their embedding at one time
MaxPendingCalls == 2

IndexJobs == {1, 2}

IndexAppIds == {11, 12, 13}

\* vectors the embedding model may return
Embeddings == {<<1, 0>>, <<1, 1>>}

\* `limit` of a search request
Limits == {-1, 0, 1, 2, 20}

\* job-<id>.json is absent
MissingFile == [kind |-> "missing", records |-> <<>>]

\* content JSON.parse rejects (empty, truncated), or a file that cannot be read
UnparseableFile == [kind |-> "unparseable", records |-> <<>>]

\* content that parses to null
NullFile == [kind |-> "null", records |-> <<>>]

\* content that parses to an object without `records` (for instance {})
NoRecordsFile == [kind |-> "noRecords", records |-> <<>>]

\* JSON.stringify(index): a job index with its records
IndexFile(records) == [kind |-> "index", records |-> records]

\* contents the file may have that no saveIndex wrote
DamagedFiles == {UnparseableFile, NullFile, NoRecordsFile}

\* loadIndex: null for an absent file, for a read or parse failure and for
\* JSON null; otherwise whatever the content parses to
loadIndex(file) ==
    IF file.kind \in {"missing", "unparseable", "null"}
    THEN [value |-> "null", records |-> <<>>]
    ELSE IF file.kind = "noRecords"
    THEN [value |-> "object", records |-> <<>>]
    ELSE [value |-> "index", records |-> file.records]

\* index.records.findIndex(r => r.application_id === applicationId), from 1;
\* 0 when absent
FindIndex(records, applicationId) ==
    IF \E i \in 1..Len(records) : records[i].application_id = applicationId
    THEN CHOOSE i \in 1..Len(records) :
            /\ records[i].application_id = applicationId
            /\ \A j \in 1..(i - 1) : records[j].application_id # applicationId
    ELSE 0

\* mutant: the saved index holds the new record only
Upsert_DropsOthers(records, record) == <<record>>

\* mutant: the record is always appended
Upsert_AlwaysPush(records, record) == Append(records, record)

\* index.records[existingIdx] = record, or index.records.push(record)
Upsert(records, record) ==
    LET existingIdx == FindIndex(records, record.application_id) IN
    IF existingIdx > 0
    THEN [records EXCEPT ![existingIdx] = record]
    ELSE Append(records, record)

RECURSIVE Dot(_, _)
Dot(a, b) == IF a = <<>> THEN 0 ELSE Head(a) * Head(b) + Dot(Tail(a), Tail(b))

\* cosineSimilarity, as the square of the cosine in percent (the vectors
\* explored have no negative component, so the order of the scores is kept)
cosineSimilarity(a, b) ==
    IF Len(a) # Len(b) THEN 0
    ELSE IF Dot(a, a) * Dot(b, b) = 0 THEN 0
    ELSE (100 * Dot(a, b) * Dot(a, b)) \div (Dot(a, a) * Dot(b, b))

\* insertion of x into a list sorted by falling score, after equal scores
RECURSIVE InsertByScore(_, _)
InsertByScore(sorted, x) ==
    IF sorted = <<>> THEN <<x>>
    ELSE IF x.score > Head(sorted).score THEN <<x>> \o sorted
    ELSE <<Head(sorted)>> \o InsertByScore(Tail(sorted), x)

\* scored.sort((a, b) => b.score - a.score): stable
RECURSIVE SortByScore(_)
SortByScore(s) ==
    IF s = <<>> THEN <<>>
    ELSE InsertByScore(SortByScore(SubSeq(s, 1, Len(s) - 1)), s[Len(s)])

\* Array.prototype.slice(0, limit): a negative limit counts from the end
SliceTo(s, limit) ==
    IF limit >= 0 THEN SubSeq(s, 1, Min(limit, Len(s)))
    ELSE SubSeq(s, 1, IF Len(s) + limit > 0 THEN Len(s) + limit ELSE 0)

\* the outcome of searchCandidates on the file of the job
searchCandidates(file, queryEmbedding, limit) ==
    LET index == loadIndex(file) IN
    IF index.value = "null" THEN [outcome |-> "returned", results |-> <<>>]
    ELSE IF index.value = "object"
    THEN [outcome |-> "raised", results |-> <<>>]
    ELSE IF Len(index.records) = 0 THEN [outcome |-> "returned", results |-> <<>>]
    ELSE LET scored == [i \in 1..Len(index.records) |->
                          [application_id |-> index.records[i].application_id,
                           score |-> cosineSimilarity(queryEmbedding,
                                                      index.records[i].embedding)]]
         IN  [outcome |-> "returned",
              results |-> SliceTo(SortByScore(scored), limit)]

\* the outcome of getIndexStatus on the file of the job
getIndexStatus(file) ==
    LET index == loadIndex(file) IN
    IF index.value = "null"
    THEN [outcome |-> "returned", indexed |-> FALSE, count |-> 0]
    ELSE IF index.value = "object"
    THEN [outcome |-> "raised", indexed |-> FALSE, count |-> 0]
    ELSE [outcome |-> "returned", indexed |-> TRUE, count |-> Len(index.records)]

\* the file after the second half of indexCandidate (load, upsert, save), and
\* whether that half raised
SaveCandidate(file, applicationId, embedding) ==
    LET index == loadIndex(file)
        record == [application_id |-> applicationId, embedding |-> embedding]
    IN  IF index.value = "object"
        THEN [outcome |-> "raised", file |-> file]
        ELSE [outcome |-> "saved",
              file |-> IndexFile(Upsert(index.records, record))]

ixIdle ==
    /\ ixFiles = [j \in IndexJobs |-> MissingFile]
    /\ ixCalls = {}
    /\ ixOps = 0
    /\ ixLast = [op |-> "none"]
    /\ ixSaved = {}
    /\ rbPc = "idle"
    /\ rbJob = 0
    /\ rbApps = <<>>
    /\ rbNext = 0
    /\ rbBefore = MissingFile
    /\ rbForeign = FALSE

\* the server is up: job 1 has no index file or a damaged one, job 2 has none
ixInit ==
    /\ \E file \in {MissingFile} \cup DamagedFiles :
          ixFiles = [j \in IndexJobs |-> IF j = 1 THEN file ELSE MissingFile]
    /\ ixCalls = {}
    /\ ixOps = 0
    /\ ixLast = [op |-> "none"]
    /\ ixSaved = {}
    /\ rbPc = "idle"
    /\ rbJob = 0
    /\ rbApps = <<>>
    /\ rbNext = 0
    /\ rbBefore = MissingFile
    /\ rbForeign = FALSE

\* a write to the job of a rebuild in progress by anything but the rebuild
ForeignWrite(job, by) ==
    rbForeign \/ (rbPc \in {"batch", "done"} /\ job = rbJob /\ by # "rebuild")

\* indexCandidate up to its await: too little text returns at once,
\* otherwise the call waits for generateEmbedding
IndexCandidateCall ==
    /\ ixOps < MaxIndexOps
    /\ \E job \in IndexJobs, app \in IndexAppIds, enoughText \in BOOLEAN :
        IF enoughText
        THEN /\ Cardinality(ixCalls) < MaxPendingCalls
             /\ ixCalls' = ixCalls \cup {[job |-> job, app |-> app, by |-> "client"]}
             /\ ixLast' = ixLast
        ELSE /\ ixCalls' = ixCalls
             /\ ixLast' = [op |-> "indexCandidate", job |-> job, app |-> app,
                           by |-> "client", outcome |-> "skipped"]
    /\ ixOps' = ixOps + 1
    /\ UNCHANGED <<ixFiles, ixSaved, rbPc, rbJob, rbBefore, rbApps, rbNext, rbForeign>>

\* generateEmbedding of a waiting call settles: it rejects, or the index is
\* loaded (or created), the record replaced or appended, and the index saved
IndexCandidateEmbedded ==
    \E call \in ixCalls :
      /\ ixCalls' = ixCalls \ {call}
      /\ \/ /\ ixLast' = [op |-> "indexCandidate", job |-> call.job, app |-> call.app,
                          by |-> call.by, outcome |-> "embeddingFailed"]
            /\ UNCHANGED <<ixFiles, ixSaved, rbForeign>>
         \/ \E embedding \in Embeddings :
              LET saved == SaveCandidate(ixFiles[call.job], call.app, embedding) IN
              /\ ixFiles' = [ixFiles EXCEPT ![call.job] = saved.file]
              /\ ixLast' = [op |-> "indexCandidate", job |-> call.job, app |-> call.app,
                            by |-> call.by, outcome |-> saved.outcome]
              /\ rbForeign' = IF saved.outcome = "saved"
                              THEN ForeignWrite(call.job, call.by) ELSE rbForeign
              /\ ixSaved' = IF saved.outcome = "saved"
                            THEN ixSaved \cup {[job |-> call.job, app |-> call.app,
                                                raced |-> \E other \in ixCalls :
                                                    /\ other.job = call.job
                                                    /\ other.app # call.app]}
                            ELSE ixSaved
      /\ UNCHANGED <<ixOps, rbPc, rbJob, rbBefore, rbApps, rbNext>>

\* DELETE /api/search/index/:jobId: clearIndex
ClearIndex ==
    /\ ixOps < MaxIndexOps
    /\ \E job \in IndexJobs :
        /\ ixFiles' = [ixFiles EXCEPT ![job] = MissingFile]
        /\ ixLast' = [op |-> "clearIndex", job |-> job]
        /\ rbForeign' = ForeignWrite(job, "client")
        /\ ixSaved' = {s \in ixSaved : s.job # job}
    /\ ixOps' = ixOps + 1
    /\ UNCHANGED <<ixCalls, rbPc, rbJob, rbBefore, rbApps, rbNext>>

\* POST /api/search/:jobId: searchCandidates on the index as loaded
SearchCandidates ==
    /\ ixOps < MaxIndexOps
    /\ \E job \in IndexJobs, query \in Embeddings, limit \in Limits :
        LET found == searchCandidates(ixFiles[job], query, limit) IN
        ixLast' = [op |-> "searchCandidates", job |-> job, limit |-> limit,
                   outcome |-> found.outcome, results |-> found.results]
    /\ ixOps' = ixOps + 1
    /\ UNCHANGED <<ixFiles, ixCalls, ixSaved, rbPc, rbJob, rbBefore, rbApps, rbNext, rbForeign>>

\* GET /api/search/index/:jobId: getIndexStatus
GetIndexStatus ==
    /\ ixOps < MaxIndexOps
    /\ \E job \in IndexJobs :
        LET status == getIndexStatus(ixFiles[job]) IN
        ixLast' = [op |-> "getIndexStatus", job |-> job, outcome |-> status.outcome,
                   indexed |-> status.indexed, count |-> status.count]
    /\ ixOps' = ixOps + 1
    /\ UNCHANGED <<ixFiles, ixCalls, ixSaved, rbPc, rbJob, rbBefore, rbApps, rbNext, rbForeign>>


\* applications a rebuild processes at most
MaxRebuildApps == 1

\* operations of other clients explored next to a rebuild
MaxForeignOps == 1

\* lists of distinct application ids of length up to n
DistinctAppLists(n) ==
    {s \in SeqsUpTo(IndexAppIds, n) : \A i, j \in 1..Len(s) : s[i] = s[j] => i = j}

\* an index file as saveIndex leaves it after indexing the given applications
IndexedFile(ids) ==
    IndexFile([i \in 1..Len(ids) |-> [application_id |-> ids[i], embedding |-> <<1, 0>>]])

\* mutant: the rebuild does not delete the old file
ClearedFile_Kept(file) == file

\* the file of the job after clearIndex
ClearedFile(file) == MissingFile

\* the indexCandidate calls of the batch starting at position `from` (from 0)
\* that go on to generateEmbedding; `withText` are the applications of the
\* batch with enough text
RebuildCalls(job, apps, from, withText) ==
    {[job |-> job, app |-> apps[i], by |-> "rebuild"] :
        i \in {k \in (from + 1)..Min(from + StreamBatchSize("index"), Len(apps)) :
                 apps[k] \in withText}}

\* a rebuild of job 1 has fetched its applications; job 1 has no file, a
\* damaged one or an index built earlier, job 2 has an index
rbInit ==
    /\ \E file \in {MissingFile, NoRecordsFile, IndexedFile(<<11, 13>>)} :
          ixFiles = [j \in IndexJobs |-> IF j = 1 THEN file ELSE IndexedFile(<<12>>)]
    /\ ixCalls = {}
    /\ ixOps = 0
    /\ ixLast = [op |-> "none"]
    /\ ixSaved = {}
    /\ rbPc = "start"
    /\ rbJob = 1
    /\ rbApps \in DistinctAppLists(MaxRebuildApps)
    /\ rbNext = 0
    /\ rbBefore = MissingFile
    /\ rbForeign = FALSE

\* the rebuild handler from clearIndex(jobId) to the await of its first batch
\* (or, with no application, to its end)
RebuildStart ==
    /\ rbPc = "start"
    /\ ixFiles' = [ixFiles EXCEPT ![rbJob] = ClearedFile(ixFiles[rbJob])]
    /\ ixLast' = [op |-> "clearIndex", job |-> rbJob]
    /\ rbBefore' = ixFiles[rbJob]
    /\ ixSaved' = {s \in ixSaved : s.job # rbJob}
    /\ IF Len(rbApps) = 0
       THEN /\ rbPc' = "done"
            /\ ixCalls' = ixCalls
       ELSE /\ rbPc' = "batch"
            /\ \E withText \in SUBSET Range(rbApps) :
                  ixCalls' = ixCalls \cup RebuildCalls(rbJob, rbApps, 0, withText)
    /\ UNCHANGED <<ixOps, rbJob, rbApps, rbNext, rbForeign>>

\* Promise.allSettled of the batch in flight settles: every indexCandidate of
\* the batch has returned or thrown; the loop goes on to the next batch or ends
RebuildBatchSettled ==
    /\ rbPc = "batch"
    /\ \A call \in ixCalls : call.by # "rebuild"
    /\ rbNext' = rbNext + StreamBatchSize("index")
    /\ IF rbNext + StreamBatchSize("index") < Len(rbApps)
       THEN /\ rbPc' = rbPc
            /\ \E withText \in SUBSET Range(rbApps) :
                  ixCalls' = ixCalls \cup RebuildCalls(rbJob, rbApps,
                                                      rbNext + StreamBatchSize("index"),
                                                      withText)
       ELSE /\ rbPc' = "done"
            /\ ixCalls' = ixCalls
    /\ UNCHANGED <<ixFiles, ixOps, ixLast, ixSaved, rbJob, rbBefore, rbApps, rbForeign>>


----------------------------------------------------------------------------
(* Two index rebuilds of one job: router.post('/index/:jobId') from its    *)
(* clearIndex to its 'complete' event, started twice                       *)

VARIABLES
    ovFile,     \* the content of job-<J>.json
    ovRuns      \* per request: the handler's position, its loop variables and
                \* counters, and the events it sent

ovVars == <<ovFile, ovRuns>>

\* applications in Application Review that one rebuild processes at most
MaxOverlapApps == 2

\* the two POST /api/search/index/J requests
OverlapRuns == {1, 2}

OverlapAppIds == {11, 12}

\* filteredApplications of a run: distinct application ids
OverlapAppLists ==
    {s \in SeqsUpTo(OverlapAppIds, MaxOverlapApps) :
        \A i, j \in 1..Len(s) : s[i] = s[j] => i = j}

\* no event of that kind sent yet
NoEvent == [event |-> "none", processed |-> 0, total |-> 0, indexed |-> 0, failed |-> 0]

\* sendEvent('progress', {processed, total, percent, indexed, failed, current})
ProgressEvent(processed, total, indexed, failed) ==
    [event |-> "progress", processed |-> processed, total |-> total,
     indexed |-> indexed, failed |-> failed]

\* sendEvent('complete', {success: true, indexed, failed, total})
CompleteEvent(total, indexed, failed) ==
    [event |-> "complete", processed |-> total, total |-> total,
     indexed |-> indexed, failed |-> failed]

\* batch = filteredApplications.slice(i, i + BATCH_SIZE), as a set of ids
RebuildBatch(apps, i) ==
    {apps[k] : k \in (i + 1)..Min(i + StreamBatchSize("index"), Len(apps))}

\* a handler that has not reached clearIndex
IdleRun(apps) ==
    [pc |-> "idle", apps |-> apps, i |-> 0, pending |-> {}, fulfilled |-> 0,
     rejected |-> 0, indexed |-> 0, failed |-> 0, saved |-> {},
     progress |-> NoEvent, complete |-> NoEvent]

\* `indexed++` for every fulfilled result of the batch
CountIndexed(run) == run.indexed + run.fulfilled

\* the run with its batch starting at i in flight: the candidates with too
\* little text have returned from indexCandidate, the others wait for their
\* embedding
WithBatch(run, i, withText) ==
    [run EXCEPT !.pc = "batch",
                !.i = i,
                !.pending = RebuildBatch(run.apps, i) \cap withText,
                !.fulfilled = Cardinality(RebuildBatch(run.apps, i) \ withText),
                !.rejected = 0]

\* the run after the results of its batch are counted and 'progress' is sent;
\* after the last batch 'complete' is sent too
WithBatchCounted(run) ==
    LET total == Len(run.apps)
        indexed == CountIndexed(run)
        failed == run.failed + run.rejected
        processed == Min(run.i + StreamBatchSize("index"), total)
    IN  [run EXCEPT !.indexed = indexed,
                    !.failed = failed,
                    !.progress = ProgressEvent(processed, total, indexed, failed),
                    !.complete = IF run.i + StreamBatchSize("index") < total
                                 THEN NoEvent
                                 ELSE CompleteEvent(total, indexed, failed),
                    !.pc = IF run.i + StreamBatchSize("index") < total
                           THEN "counted" ELSE "done"]

ovIdle ==
    /\ ovFile = MissingFile
    /\ ovRuns = [r \in OverlapRuns |-> IdleRun(<<>>)]

\* both requests have fetched the applications of job J; J has no index file,
\* a damaged one or an index built earlier
ovInit ==
    /\ ovFile \in {MissingFile, NoRecordsFile, IndexedFile(<<12>>)}
    /\ \E a, b \in OverlapAppLists : ovRuns = [r \in OverlapRuns |->
                                                 IdleRun(IF r = 1 THEN a ELSE b)]

\* the handler from clearIndex(jobId) to the await of its first batch, or to
\* its end when there is no application; the second request gets there after
\* the first
OverlapStart ==
    \E r \in OverlapRuns :
      /\ ovRuns[r].pc = "idle"
      /\ r = 2 => ovRuns[1].pc # "idle"
      /\ ovFile' = ClearedFile(ovFile)
      /\ IF Len(ovRuns[r].apps) = 0
         THEN ovRuns' = [ovRuns EXCEPT ![r] =
                            [@ EXCEPT !.pc = "done", !.complete = CompleteEvent(0, 0, 0)]]
         ELSE \E withText \in SUBSET Range(ovRuns[r].apps) :
                 ovRuns' = [ovRuns EXCEPT ![r] = WithBatch(@, 0, withText)]

\* generateEmbedding of one indexCandidate call of the batch settles: it
\* rejects, or the index is loaded (or created), updated and saved
OverlapEmbedded ==
    \E r \in OverlapRuns :
      /\ ovRuns[r].pc = "batch"
      /\ \E app \in ovRuns[r].pending :
          \/ /\ ovRuns' = [ovRuns EXCEPT ![r] =
                              [@ EXCEPT !.pending = @ \ {app}, !.rejected = @ + 1]]
             /\ ovFile' = ovFile
          \/ LET saved == SaveCandidate(ovFile, app, <<1, 0>>) IN
             /\ ovFile' = saved.file
             /\ ovRuns' = [ovRuns EXCEPT ![r] =
                  IF saved.outcome = "saved"
                  THEN [@ EXCEPT !.pending = @ \ {app}, !.fulfilled = @ + 1,
                                 !.saved = @ \cup {app}]
                  ELSE [@ EXCEPT !.pending = @ \ {app}, !.rejected = @ + 1]]

\* Promise.allSettled of the batch settles: the results are counted,
\* 'progress' is sent, and the loop starts its next batch or the handler
\* sends 'complete'
OverlapBatchSettled ==
    \E r \in OverlapRuns :
      /\ ovRuns[r].pc = "batch"
      /\ ovRuns[r].pending = {}
      /\ LET counted == WithBatchCounted(ovRuns[r]) IN
         IF counted.pc = "done"
         THEN ovRuns' = [ovRuns EXCEPT ![r] = counted]
         ELSE \E withText \in SUBSET Range(ovRuns[r].apps) :
                 ovRuns' = [ovRuns EXCEPT ![r] =
                    WithBatch(counted, ovRuns[r].i + StreamBatchSize("index"), withText)]
      /\ ovFile' = ovFile


----------------------------------------------------------------------------
(* Review screen: App.tsx with useSelection; the table shows                *)
(* filteredApplications of the loaded page                                 *)

VARIABLES
    uiJob,          \* selectedJobId (URL parameter job)
    uiPage,         \* currentPage (URL parameter page)
    uiScreening,    \* filters.screening
    uiSearch,       \* searchResults: NoValue for null, else the ids found
    uiSelected,     \* useSelection: selected
    uiSent          \* history: the last bulk-reject request and the table then

uiVars == <<uiJob, uiPage, uiScreening, uiSearch, uiSelected, uiSent>>

UiJobs == {1, 2}

\* applicationsData.applications for a job and a page, as the server pages them
PageApplications(job, page) ==
    IF job = 1 /\ page = 1 THEN <<11, 12>>
    ELSE IF job = 1 /\ page = 2 THEN <<13>>
    ELSE IF job = 2 /\ page = 1 THEN <<21>>
    ELSE <<>>

\* totalPages of the job
TotalPages(job) == IF job = 1 THEN 2 ELSE 1

\* screeningResults[id]?.recommendation; "none" for an unscreened application
Recommendation(id) == IF id = 11 THEN "GREEN" ELSE IF id = 12 THEN "RED" ELSE "none"

ScreeningFilters == {"all", "unscreened", "green", "red"}

\* what a semantic search may return (application ids of the job's index)
SearchAnswers == {{}, {11}, {12, 13}}

\* the screening filter of filteredApplications
PassesScreening(id, screening) ==
    CASE screening = "unscreened" -> Recommendation(id) = "none"
      [] screening = "green" -> Recommendation(id) = "GREEN"
      [] screening = "red" -> Recommendation(id) = "RED"
      [] OTHER -> TRUE

\* filteredApplications, as the set of ids displayed in the table
filteredApplications(job, page, screening, search) ==
    {id \in Range(PageApplications(job, page)) :
        /\ PassesScreening(id, screening)
        /\ (search # NoValue /\ search.ids # {}) => id \in search.ids}

Displayed == filteredApplications(uiJob, uiPage, uiScreening, uiSearch)

uiIdle ==
    /\ uiJob = 0
    /\ uiPage = 0
    /\ uiScreening = "all"
    /\ uiSearch = NoValue
    /\ uiSelected = {}
    /\ uiSent = NoValue

\* the screen is open on page 1 of a job, nothing selected
uiInit ==
    /\ uiJob \in UiJobs
    /\ uiPage = 1
    /\ uiScreening = "all"
    /\ uiSearch = NoValue
    /\ uiSelected = {}
    /\ uiSent = NoValue

\* onToggleSelect of a row of the table: useSelection.toggle
Toggle ==
    /\ \E id \in Displayed :
          uiSelected' = IF id \in uiSelected THEN uiSelected \ {id}
                        ELSE uiSelected \cup {id}
    /\ UNCHANGED <<uiJob, uiPage, uiScreening, uiSearch, uiSent>>

\* onSelectAll of the table header (clear when every row is selected, else
\* selectAll), or the key 'a' (selectAll)
SelectAll ==
    /\ \E key \in BOOLEAN :
          uiSelected' = IF ~key /\ Displayed \subseteq uiSelected THEN {} ELSE Displayed
    /\ UNCHANGED <<uiJob, uiPage, uiScreening, uiSearch, uiSent>>

\* onPageChange, or the keys '[' and ']': setCurrentPage
SetCurrentPage ==
    /\ \E page \in 1..TotalPages(uiJob) :
          /\ page # uiPage
          /\ uiPage' = page
    /\ UNCHANGED <<uiJob, uiScreening, uiSearch, uiSelected, uiSent>>

\* onFiltersChange of the filter bar: setFilters
SetFilters ==
    /\ \E screening \in ScreeningFilters :
          /\ screening # uiScreening
          /\ uiScreening' = screening
    /\ UNCHANGED <<uiJob, uiPage, uiSearch, uiSelected, uiSent>>

\* onSearchResults of the search bar: results of a search, or null on clear
SetSearchResults ==
    /\ \/ \E ids \in SearchAnswers : uiSearch' = [ids |-> ids]
       \/ uiSearch' = NoValue
    /\ uiSearch' # uiSearch
    /\ UNCHANGED <<uiJob, uiPage, uiScreening, uiSelected, uiSent>>

\* onSelectJob: setSelectedJobId(jobId); selection.clear(); setSearchResults(null)
SelectJob ==
    /\ \E job \in UiJobs :
          /\ job # uiJob
          /\ uiJob' = job
    /\ uiPage' = 1
    /\ uiSelected' = {}
    /\ uiSearch' = NoValue
    /\ UNCHANGED <<uiScreening, uiSent>>

\* application_ids: selection.selectedArray
BulkRejectIds(selected) == selected

\* onConfirm of the bulk reject dialog, opened from the action bar or with
\* the key 'x' while something is selected: handleBulkReject; the selection
\* is cleared when the request succeeds
HandleBulkReject ==
    /\ uiSelected # {}
    /\ uiSent' = [application_ids |-> BulkRejectIds(uiSelected),
                  displayed |-> Displayed]
    /\ \E success \in BOOLEAN : uiSelected' = IF success THEN {} ELSE uiSelected
    /\ UNCHANGED <<uiJob, uiPage, uiScreening, uiSearch>>


----------------------------------------------------------------------------
(* Index progress dialog: IndexProgressDialog.startIndexing reading the     *)
(* event stream that sendEvent of the index route writes                   *)

VARIABLES
    dgStream,   \* the characters the server wrote, in order
    dgEvents,   \* history: the events the server sent
    dgPos,      \* characters delivered to the dialog so far
    dgBuffer,   \* let buffer
    dgHandled,  \* history: the handleEvent calls, in order
    dgPhase,    \* the dialog's phase state
    dgDone      \* reader.read() has reported done

dgVars == <<dgStream, dgEvents, dgPos, dgBuffer, dgHandled, dgPhase, dgDone>>

\* the line feed character
LF == [field |-> "lf", event |-> 0, half |-> 0]

\* the text of a line in two pieces, so that a read can end inside the line
LineText(field, k) == <<[field |-> field, event |-> k, half |-> 1],
                        [field |-> field, event |-> k, half |-> 2]>>

\* res.write(`event: ${event}\ndata: ${JSON.stringify(data)}\n\n`) for the
\* k-th event
sendEvent(k) == LineText("event", k) \o <<LF>> \o LineText("data", k) \o <<LF, LF>>

\* event sequences the index route can send (see the stream component)
DialogEventLists ==
    {<<"status", "error">>,
     <<"status", "status", "complete">>,
     <<"status", "progress", "status", "complete">>}

RECURSIVE WriteAll(_, _)
\* the stream after sendEvent for the events from the k-th on
WriteAll(events, k) ==
    IF k > Len(events) THEN <<>> ELSE sendEvent(k) \o WriteAll(events, k + 1)

RECURSIVE SplitLines(_)
\* buffer.split('\n'): the pieces between line feeds; the last piece is what
\* follows the last line feed
SplitLines(s) ==
    IF \A i \in 1..Len(s) : s[i] # LF THEN <<s>>
    ELSE LET i == CHOOSE i \in 1..Len(s) :
                     s[i] = LF /\ \A j \in 1..(i - 1) : s[j] # LF
         IN  <<SubSeq(s, 1, i - 1)>> \o SplitLines(SubSeq(s, i + 1, Len(s)))

\* line.startsWith('event: '), line.startsWith('data: ')
StartsWith(line, field) == Len(line) >= 1 /\ line[1].field = field /\ line[1].half = 1

\* line.slice(7) of an event line, line.slice(6) of a data line: the event
\* number when the line is whole
LineEvent(line) == IF Len(line) = 2 THEN line[1].event ELSE 0

RECURSIVE ParseLines(_, _, _)
\* the for loop over the lines of one read: the handleEvent calls it makes,
\* starting with the given currentEvent
ParseLines(lines, currentEvent, handled) ==
    IF lines = <<>> THEN handled
    ELSE LET line == Head(lines) IN
         IF StartsWith(line, "event")
         THEN ParseLines(Tail(lines), LineEvent(line), handled)
         ELSE IF StartsWith(line, "data") /\ currentEvent # 0
         THEN ParseLines(Tail(lines), 0, Append(handled, currentEvent))
         ELSE ParseLines(Tail(lines), currentEvent, handled)

RECURSIVE PhaseAfter(_, _, _)
\* the dialog's phase after handleEvent for the given events: 'status' sets
\* data.phase, 'complete' and 'error' set their phase, the others none
PhaseAfter(phase, events, handled) ==
    IF handled = <<>> THEN phase
    ELSE LET name == events[Head(handled)]
             next == CASE name = "complete" -> "complete"
                       [] name = "error" -> "error"
                       [] name = "status" ->
                            IF Head(handled) < Len(events) /\ events[Head(handled) + 1] = "complete"
                            THEN "complete" ELSE "processing"
                       [] OTHER -> phase
         IN  PhaseAfter(next, events, Tail(handled))

dgIdle ==
    /\ dgStream = <<>>
    /\ dgEvents = <<>>
    /\ dgPos = 0
    /\ dgBuffer = <<>>
    /\ dgHandled = <<>>
    /\ dgPhase = "idle"
    /\ dgDone = FALSE

\* startIndexing has its reader; the server's events are on their way
dgInit ==
    /\ dgEvents \in DialogEventLists
    /\ dgStream = WriteAll(dgEvents, 1)
    /\ dgPos = 0
    /\ dgBuffer = <<>>
    /\ dgHandled = <<>>
    /\ dgPhase = "init"
    /\ dgDone = FALSE

\* one turn of the while loop: reader.read() delivers the next characters,
\* as many as the transport has put in the chunk; the whole lines of the
\* buffer are parsed with a currentEvent that starts empty
DialogRead ==
    /\ ~dgDone
    /\ \E n \in 1..(Len(dgStream) - dgPos) :
         LET lines == SplitLines(dgBuffer \o SubSeq(dgStream, dgPos + 1, dgPos + n))
             calls == ParseLines(SubSeq(lines, 1, Len(lines) - 1), 0, <<>>)
         IN  /\ dgPos' = dgPos + n
             /\ dgBuffer' = lines[Len(lines)]
             /\ dgHandled' = dgHandled \o calls
             /\ dgPhase' = PhaseAfter(dgPhase, dgEvents, calls)
    /\ UNCHANGED <<dgStream, dgEvents, dgDone>>

\* reader.read() reports done after res.end(): the loop ends
DialogDone ==
    /\ ~dgDone
    /\ dgPos = Len(dgStream)
    /\ dgDone' = TRUE
    /\ UNCHANGED <<dgStream, dgEvents, dgPos, dgBuffer, dgHandled, dgPhase>>


----------------------------------------------------------------------------
(* Client-side screening: useScreening (mutationFn and onSuccess) with the  *)
(* ['screening'] query cache and localStorage                              *)

VARIABLES
    csPc,           \* "idle" | "batch" | "done" | "failed"
    csApplications, \* request.applications (application ids)
    csI,            \* `i` of the batch loop
    csAllResults,   \* allResults
    csCache,        \* queryClient data of ['screening']: id -> recommendation
    csStorage,      \* localStorage['greenhouse-screening-results']
    csBefore,       \* history: the stored results when the mutation started
    csPosts         \* history: the `applications` of every POST /screen

csVars == <<csPc, csApplications, csI, csAllResults, csCache, csStorage,
            csBefore, csPosts>>

\* applications screened in one invocation at most
MaxClientApps == 6

\* const batchSize = 5
batchSize == 5

\* an application screened earlier that is not part of this invocation
OtherAppId == MaxClientApps + 2

ClientAppCounts == {0, 1, batchSize, MaxClientApps}

\* ids that may have a stored result
StoredIds == 1..OtherAppId

\* no result stored for an id
NotScreened == "none"

\* results stored before: none, old results of application 1 and of an
\* application outside this invocation, or old results of the first batch
StoredBefore ==
    {[id \in StoredIds |-> NotScreened],
     [id \in StoredIds |-> IF id \in {1, OtherAppId} THEN "OLD" ELSE NotScreened],
     [id \in StoredIds |-> IF id \in 1..batchSize THEN "OLD" ELSE NotScreened]}

\* the other recommendation
Flip(recommendation) == IF recommendation = "GREEN" THEN "RED" ELSE "GREEN"

\* response.results of POST /screen for a batch: a result per application,
\* or none for the first, or two for the first (the later one differing)
ScreenResults(batch, style, recommendation) ==
    LET all == [k \in 1..Len(batch) |->
                  [application_id |-> batch[k], recommendation |-> recommendation]]
    IN  CASE style = "dropFirst" -> Tail(all)
          [] style = "twiceFirst" ->
                Append(all, [application_id |-> batch[1],
                             recommendation |-> Flip(recommendation)])
          [] OTHER -> all

ResultStyles == {"all", "dropFirst", "twiceFirst"}

\* mutant: a result already stored is kept
StoreResult_KeepOlder(acc, result) ==
    IF acc[result.application_id] # NotScreened THEN acc
    ELSE [acc EXCEPT ![result.application_id] = result.recommendation]

\* ({...acc, [result.application_id]: result})
StoreResult(acc, result) ==
    [acc EXCEPT ![result.application_id] = result.recommendation]

RECURSIVE Reduce(_, _)
\* data.results.reduce(..., currentResults)
Reduce(results, currentResults) ==
    IF results = <<>> THEN currentResults
    ELSE Reduce(Tail(results), StoreResult(currentResults, Head(results)))

csIdle ==
    /\ csPc = "idle"
    /\ csApplications = <<>>
    /\ csI = 0
    /\ csAllResults = <<>>
    /\ csCache = [id \in StoredIds |-> NotScreened]
    /\ csStorage = [id \in StoredIds |-> NotScreened]
    /\ csBefore = [id \in StoredIds |-> NotScreened]
    /\ csPosts = <<>>

\* screen(request) has been called; the query cache holds what localStorage
\* held when the page loaded
csInit ==
    /\ csPc = "start"
    /\ \E n \in ClientAppCounts : csApplications = [k \in 1..n |-> k]
    /\ csI = 0
    /\ csAllResults = <<>>
    /\ csCache \in StoredBefore
    /\ csStorage = csCache
    /\ csBefore = csCache
    /\ csPosts = <<>>

\* onSuccess: the results are merged into the cached results and written to
\* the cache and to localStorage
OnSuccess(results, currentResults) == Reduce(results, currentResults)

\* the loop test with `i`: the next batch is posted, or the mutation
\* function returns and onSuccess runs
ScreeningLoop(i, allResults) ==
    IF i < Len(csApplications)
    THEN /\ csPc' = "batch"
         /\ csPosts' = Append(csPosts, Slice(csApplications, i, i + batchSize))
         /\ UNCHANGED <<csCache, csStorage>>
    ELSE /\ csPc' = "done"
         /\ csCache' = OnSuccess(allResults, csCache)
         /\ csStorage' = OnSuccess(allResults, csCache)
         /\ csPosts' = csPosts

\* mutationFn up to its first await
ScreeningStart ==
    /\ csPc = "start"
    /\ ScreeningLoop(0, <<>>)
    /\ UNCHANGED <<csApplications, csI, csAllResults, csBefore>>

\* await api.post('/screen', ...) settles: the results are appended and the
\* loop goes on, or the request failed and the mutation rejects
ScreeningBatchSettles ==
    /\ csPc = "batch"
    /\ \/ /\ csPc' = "failed"
          /\ UNCHANGED <<csI, csAllResults, csCache, csStorage, csPosts>>
       \/ \E style \in ResultStyles, recommendation \in {"GREEN", "RED"} :
             LET results == ScreenResults(csPosts[Len(csPosts)], style, recommendation) IN
             /\ csAllResults' = csAllResults \o results
             /\ csI' = csI + batchSize
             /\ ScreeningLoop(csI + batchSize, csAllResults \o results)
    /\ UNCHANGED <<csApplications, csBefore>>


----------------------------------------------------------------------------
(* Specifications: one per component, the other components parked         *)

vars == <<rqVars, cfVars, brVars, faVars, scVars, hlVars, smVars, ixVars, ovVars, uiVars, dgVars, csVars>>

\* one outbound ATS call
NextRequest ==
    \/ RequestFetch /\ UNCHANGED <<cfVars, brVars, faVars, scVars, hlVars, smVars, ixVars, ovVars, uiVars, dgVars, csVars>>
    \/ RequestRetry /\ UNCHANGED <<cfVars, brVars, faVars, scVars, hlVars, smVars, ixVars, ovVars, uiVars, dgVars, csVars>>

InitRequest ==
    rqInit /\ cfIdle /\ brIdle /\ faIdle /\ scIdle /\ hlIdle /\ smIdle /\ ixIdle /\ ovIdle /\ uiIdle /\ dgIdle /\ csIdle

SpecRequest ==
    /\ InitRequest
    /\ [][NextRequest]_vars

\* the server process with its settings route and its two clients
NextConfig ==
    \/ InitializeFromSavedSettings /\ UNCHANGED <<rqVars, brVars, faVars, scVars, hlVars, smVars, ixVars, ovVars, uiVars, dgVars, csVars>>
    \/ PostSettings /\ UNCHANGED <<rqVars, brVars, faVars, scVars, hlVars, smVars, ixVars, ovVars, uiVars, dgVars, csVars>>
    \/ AtsFetch /\ UNCHANGED <<rqVars, brVars, faVars, scVars, hlVars, smVars, ixVars, ovVars, uiVars, dgVars, csVars>>
    \/ LlmCreate /\ UNCHANGED <<rqVars, brVars, faVars, scVars, hlVars, smVars, ixVars, ovVars, uiVars, dgVars, csVars>>

InitConfig ==
    cfInit /\ rqIdle /\ brIdle /\ faIdle /\ scIdle /\ hlIdle /\ smIdle /\ ixIdle /\ ovIdle /\ uiIdle /\ dgIdle /\ csIdle

SpecConfig ==
    /\ InitConfig
    /\ [][NextConfig]_vars

\* one POST /api/applications/bulk-reject
NextBulkReject ==
    \/ BulkRejectStart /\ UNCHANGED <<rqVars, cfVars, faVars, scVars, hlVars, smVars, ixVars, ovVars, uiVars, dgVars, csVars>>
    \/ BulkRejectSettle /\ UNCHANGED <<rqVars, cfVars, faVars, scVars, hlVars, smVars, ixVars, ovVars, uiVars, dgVars, csVars>>
    \/ BulkRejectRespond /\ UNCHANGED <<rqVars, cfVars, faVars, scVars, hlVars, smVars, ixVars, ovVars, uiVars, dgVars, csVars>>

InitBulkReject ==
    brInit /\ rqIdle /\ cfIdle /\ faIdle /\ scIdle /\ hlIdle /\ smIdle /\ ixIdle /\ ovIdle /\ uiIdle /\ dgIdle /\ csIdle

SpecBulkReject ==
    /\ InitBulkReject
    /\ [][NextBulkReject]_vars

\* one fetchAllApplicationsLightweight run
NextFetchAll ==
    \/ FetchPageCall /\ UNCHANGED <<rqVars, cfVars, brVars, scVars, hlVars, smVars, ixVars, ovVars, uiVars, dgVars, csVars>>
    \/ FetchPageHttp /\ UNCHANGED <<rqVars, cfVars, brVars, scVars, hlVars, smVars, ixVars, ovVars, uiVars, dgVars, csVars>>

InitFetchAll ==
    faInit /\ rqIdle /\ cfIdle /\ brIdle /\ scIdle /\ hlIdle /\ smIdle /\ ixIdle /\ ovIdle /\ uiIdle /\ dgIdle /\ csIdle

SpecFetchAll ==
    /\ InitFetchAll
    /\ [][NextFetchAll]_vars

\* one POST /api/screen
NextScreen ==
    \/ ScreenReceive /\ UNCHANGED <<rqVars, cfVars, brVars, faVars, hlVars, smVars, ixVars, ovVars, uiVars, dgVars, csVars>>
    \/ ScreenLlmSettles /\ UNCHANGED <<rqVars, cfVars, brVars, faVars, hlVars, smVars, ixVars, ovVars, uiVars, dgVars, csVars>>

InitScreen ==
    scInit /\ rqIdle /\ cfIdle /\ brIdle /\ faIdle /\ hlIdle /\ smIdle /\ ixIdle /\ ovIdle /\ uiIdle /\ dgIdle /\ csIdle

SpecScreen ==
    /\ InitScreen
    /\ [][NextScreen]_vars

\* one generateHighlights run
NextHighlights ==
    \/ HighlightsStart /\ UNCHANGED <<rqVars, cfVars, brVars, faVars, scVars, smVars, ixVars, ovVars, uiVars, dgVars, csVars>>
    \/ HighlightsBatchSettles /\ UNCHANGED <<rqVars, cfVars, brVars, faVars, scVars, smVars, ixVars, ovVars, uiVars, dgVars, csVars>>
    \/ HighlightsRankSettles /\ UNCHANGED <<rqVars, cfVars, brVars, faVars, scVars, smVars, ixVars, ovVars, uiVars, dgVars, csVars>>

InitHighlights ==
    hlInit /\ rqIdle /\ cfIdle /\ brIdle /\ faIdle /\ scIdle /\ smIdle /\ ixIdle /\ ovIdle /\ uiIdle /\ dgIdle /\ csIdle

SpecHighlights ==
    /\ InitHighlights
    /\ [][NextHighlights]_vars

\* one progress-streamed request
NextStream ==
    \/ StreamOpen /\ UNCHANGED <<rqVars, cfVars, brVars, faVars, scVars, hlVars, ixVars, ovVars, uiVars, dgVars, csVars>>
    \/ StreamEmbeddingStatus /\ UNCHANGED <<rqVars, cfVars, brVars, faVars, scVars, hlVars, ixVars, ovVars, uiVars, dgVars, csVars>>
    \/ StreamGetJobs /\ UNCHANGED <<rqVars, cfVars, brVars, faVars, scVars, hlVars, ixVars, ovVars, uiVars, dgVars, csVars>>
    \/ StreamFetchPage /\ UNCHANGED <<rqVars, cfVars, brVars, faVars, scVars, hlVars, ixVars, ovVars, uiVars, dgVars, csVars>>
    \/ StreamExtractBatch /\ UNCHANGED <<rqVars, cfVars, brVars, faVars, scVars, hlVars, ixVars, ovVars, uiVars, dgVars, csVars>>
    \/ StreamHighlightsBatch /\ UNCHANGED <<rqVars, cfVars, brVars, faVars, scVars, hlVars, ixVars, ovVars, uiVars, dgVars, csVars>>
    \/ StreamHighlightsRank /\ UNCHANGED <<rqVars, cfVars, brVars, faVars, scVars, hlVars, ixVars, ovVars, uiVars, dgVars, csVars>>

InitStream ==
    smInit /\ rqIdle /\ cfIdle /\ brIdle /\ faIdle /\ scIdle /\ hlIdle /\ ixIdle /\ ovIdle /\ uiIdle /\ dgIdle /\ csIdle

SpecStream ==
    /\ InitStream
    /\ [][NextStream]_vars

\* the embedding index under its operations
NextIndex ==
    \/ IndexCandidateCall /\ UNCHANGED <<rqVars, cfVars, brVars, faVars, scVars, hlVars, smVars, ovVars, uiVars, dgVars, csVars>>
    \/ IndexCandidateEmbedded /\ UNCHANGED <<rqVars, cfVars, brVars, faVars, scVars, hlVars, smVars, ovVars, uiVars, dgVars, csVars>>
    \/ ClearIndex /\ UNCHANGED <<rqVars, cfVars, brVars, faVars, scVars, hlVars, smVars, ovVars, uiVars, dgVars, csVars>>
    \/ SearchCandidates /\ UNCHANGED <<rqVars, cfVars, brVars, faVars, scVars, hlVars, smVars, ovVars, uiVars, dgVars, csVars>>
    \/ GetIndexStatus /\ UNCHANGED <<rqVars, cfVars, brVars, faVars, scVars, hlVars, smVars, ovVars, uiVars, dgVars, csVars>>

InitIndex ==
    ixInit /\ rqIdle /\ cfIdle /\ brIdle /\ faIdle /\ scIdle /\ hlIdle /\ smIdle /\ ovIdle /\ uiIdle /\ dgIdle /\ csIdle

SpecIndex ==
    /\ InitIndex
    /\ [][NextIndex]_vars

\* other clients get their turns while the rebuild is indexing
ForeignTurn == rbPc = "batch" /\ ixOps < MaxForeignOps

\* an index rebuild next to the other writers of the index
NextRebuild ==
    \/ RebuildStart /\ UNCHANGED <<rqVars, cfVars, brVars, faVars, scVars, hlVars, smVars, ovVars, uiVars, dgVars, csVars>>
    \/ RebuildBatchSettled /\ UNCHANGED <<rqVars, cfVars, brVars, faVars, scVars, hlVars, smVars, ovVars, uiVars, dgVars, csVars>>
    \/ ForeignTurn /\ IndexCandidateCall /\ UNCHANGED <<rqVars, cfVars, brVars, faVars, scVars, hlVars, smVars, ovVars, uiVars, dgVars, csVars>>
    \/ IndexCandidateEmbedded /\ UNCHANGED <<rqVars, cfVars, brVars, faVars, scVars, hlVars, smVars, ovVars, uiVars, dgVars, csVars>>
    \/ ForeignTurn /\ ClearIndex /\ UNCHANGED <<rqVars, cfVars, brVars, faVars, scVars, hlVars, smVars, ovVars, uiVars, dgVars, csVars>>

InitRebuild ==
    rbInit /\ rqIdle /\ cfIdle /\ brIdle /\ faIdle /\ scIdle /\ hlIdle /\ smIdle /\ ovIdle /\ uiIdle /\ dgIdle /\ csIdle

SpecRebuild ==
    /\ InitRebuild
    /\ [][NextRebuild]_vars

\* two rebuilds of one job, the second started while the first may be running
NextOverlap ==
    \/ OverlapStart /\ UNCHANGED <<rqVars, cfVars, brVars, faVars, scVars, hlVars, smVars, ixVars, uiVars, dgVars, csVars>>
    \/ OverlapEmbedded /\ UNCHANGED <<rqVars, cfVars, brVars, faVars, scVars, hlVars, smVars, ixVars, uiVars, dgVars, csVars>>
    \/ OverlapBatchSettled /\ UNCHANGED <<rqVars, cfVars, brVars, faVars, scVars, hlVars, smVars, ixVars, uiVars, dgVars, csVars>>

InitOverlap ==
    ovInit /\ rqIdle /\ cfIdle /\ brIdle /\ faIdle /\ scIdle /\ hlIdle /\ smIdle /\ ixIdle /\ uiIdle /\ dgIdle /\ csIdle

SpecOverlap ==
    /\ InitOverlap
    /\ [][NextOverlap]_vars

\* the review screen under the user's actions
NextReview ==
    \/ Toggle /\ UNCHANGED <<rqVars, cfVars, brVars, faVars, scVars, hlVars, smVars, ixVars, ovVars, dgVars, csVars>>
    \/ SelectAll /\ UNCHANGED <<rqVars, cfVars, brVars, faVars, scVars, hlVars, smVars, ixVars, ovVars, dgVars, csVars>>
    \/ SetCurrentPage /\ UNCHANGED <<rqVars, cfVars, brVars, faVars, scVars, hlVars, smVars, ixVars, ovVars, dgVars, csVars>>
    \/ SetFilters /\ UNCHANGED <<rqVars, cfVars, brVars, faVars, scVars, hlVars, smVars, ixVars, ovVars, dgVars, csVars>>
    \/ SetSearchResults /\ UNCHANGED <<rqVars, cfVars, brVars, faVars, scVars, hlVars, smVars, ixVars, ovVars, dgVars, csVars>>
    \/ SelectJob /\ UNCHANGED <<rqVars, cfVars, brVars, faVars, scVars, hlVars, smVars, ixVars, ovVars, dgVars, csVars>>
    \/ HandleBulkReject /\ UNCHANGED <<rqVars, cfVars, brVars, faVars, scVars, hlVars, smVars, ixVars, ovVars, dgVars, csVars>>

InitReview ==
    uiInit /\ rqIdle /\ cfIdle /\ brIdle /\ faIdle /\ scIdle /\ hlIdle /\ smIdle /\ ixIdle /\ ovIdle /\ dgIdle /\ csIdle

SpecReview ==
    /\ InitReview
    /\ [][NextReview]_vars

\* the dialog reading one event stream
NextDialog ==
    \/ DialogRead /\ UNCHANGED <<rqVars, cfVars, brVars, faVars, scVars, hlVars, smVars, ixVars, ovVars, uiVars, csVars>>
    \/ DialogDone /\ UNCHANGED <<rqVars, cfVars, brVars, faVars, scVars, hlVars, smVars, ixVars, ovVars, uiVars, csVars>>

InitDialog ==
    dgInit /\ rqIdle /\ cfIdle /\ brIdle /\ faIdle /\ scIdle /\ hlIdle /\ smIdle /\ ixIdle /\ ovIdle /\ uiIdle /\ csIdle

SpecDialog ==
    /\ InitDialog
    /\ [][NextDialog]_vars

\* one invocation of the client-side screening mutation
NextClientScreen ==
    \/ ScreeningStart /\ UNCHANGED <<rqVars, cfVars, brVars, faVars, scVars, hlVars, smVars, ixVars, ovVars, uiVars, dgVars>>
    \/ ScreeningBatchSettles /\ UNCHANGED <<rqVars, cfVars, brVars, faVars, scVars, hlVars, smVars, ixVars, ovVars, uiVars, dgVars>>

InitClientScreen ==
    csInit /\ rqIdle /\ cfIdle /\ brIdle /\ faIdle /\ scIdle /\ hlIdle /\ smIdle /\ ixIdle /\ ovIdle /\ uiIdle /\ dgIdle

SpecClientScreen ==
    /\ InitClientScreen
    /\ [][NextClientScreen]_vars

----------------------------------------------------------------------------
(* Claims about the ATS client (SpecRequest)                               *)

\* number of 429 answers at the head of a response history
RECURSIVE Leading429(_)
Leading429(rs) ==
    IF rs = <<>> \/ Head(rs).status # 429 THEN 0 ELSE 1 + Leading429(Tail(rs))

\* C1: when the upstream answers 429 k times in a row (k <= 5) and then
\* succeeds, the call returns that successful result after exactly k retries
\* (k + 1 attempts); when it answers 429 six times in a row the call fails
\* with an error and no seventh attempt is made; retries never exceed 5.
C1_RateLimitRetries ==
    LET k == Leading429(rqResponses) IN
    /\ rqRetries <= 5
    /\ rqAttempts <= 6
    /\ rqAttempts = Len(rqResponses)
    /\ (/\ Len(rqResponses) = k + 1
        /\ k <= 5
        /\ ResponseOk(rqResponses[k + 1].status))
       => /\ rqPc = "returned"
          /\ rqRetries = k
          /\ rqAttempts = k + 1
          /\ rqOutcome.kind \in {"json", "dataWithHeaders"}
          /\ rqOutcome.data = rqResponses[k + 1].body
    /\ (Len(rqResponses) = 6 /\ k = 6)
       => /\ rqPc = "thrown"
          /\ rqOutcome.kind = "error"
          /\ rqOutcome.status = 429
          /\ rqRetries = 5

\* C1 witness: five 429 answers, then a success returned on the sixth attempt
C1_Witness ==
    /\ rqPc = "returned"
    /\ rqRetries = 5
    /\ Leading429(rqResponses) = 5
    /\ rqAttempts = 6

\* C2: a non-OK response whose status is not 429 is never retried: it is the
\* last attempt of the call (the only one when it answers the first attempt),
\* and the call fails with an error carrying that status and that body.
C2_NoRetryOnOtherErrors ==
    \A i \in 1..Len(rqResponses) :
        (~ResponseOk(rqResponses[i].status) /\ rqResponses[i].status # 429)
        => /\ i = Len(rqResponses)
           /\ rqAttempts = i
           /\ rqPc = "thrown"
           /\ rqOutcome.kind = "error"
           /\ rqOutcome.status = rqResponses[i].status
           /\ rqOutcome.text = rqResponses[i].body

\* C2 witness: the first attempt is answered 500 and the call has failed
C2_Witness ==
    /\ rqPc = "thrown"
    /\ rqAttempts = 1
    /\ rqResponses[1].status = 500
    /\ rqOutcome.status = 500

----------------------------------------------------------------------------
(* Claims about the bulk reject route (SpecBulkReject)                     *)

\* positions of the input list holding id whose upstream call ended as outcome
PositionsWith(id, outcome) ==
    {i \in 1..Len(brBody.application_ids.items) :
        brBody.application_ids.items[i] = id /\ brOutcome[i] = outcome}

BulkAccepted ==
    /\ brPc = "responded"
    /\ IsNonEmptyArray(brBody.application_ids)
    /\ brBody.rejection_reason_id # 0

\* C3 as stated: the response is a success response and every input id
\* appears in exactly one of the two lists, 'rejected' if its upstream call
\* succeeded and 'failed' if it threw.
C3_EveryIdInExactlyOneList ==
    BulkAccepted =>
        /\ brResponse.status = 200
        /\ \A id \in Range(brBody.application_ids.items) :
            (id \in Range(brResponse.rejected)) # (id \in Range(brResponse.failed))

\* C3 amended: the response is a success response whatever the upstream
\* calls did; every position of the input list is attempted once and lands
\* exactly once in the two lists, in 'rejected' if its call succeeded and in
\* 'failed' if it threw; when the input ids are pairwise distinct, rejected
\* and failed partition them.
C3_EveryPositionInExactlyOneList ==
    BulkAccepted =>
        LET ids == brBody.application_ids.items IN
        /\ brResponse.status = 200
        /\ brResponse.success
        /\ \A i \in 1..Len(ids) : brCalls[i] = 1 /\ brOutcome[i] \in {"ok", "threw"}
        /\ Len(brResponse.rejected) + Len(brResponse.failed) = Len(ids)
        /\ \A id \in BulkAppIds :
            /\ Count(brResponse.rejected, id) = Cardinality(PositionsWith(id, "ok"))
            /\ Count(brResponse.failed, id) = Cardinality(PositionsWith(id, "threw"))
        /\ (\A i, j \in 1..Len(ids) : i # j => ids[i] # ids[j])
           => \A id \in Range(ids) :
                (id \in Range(brResponse.rejected)) # (id \in Range(brResponse.failed))

\* C3 witness: [101, 102, 103] with the call for 102 failing
C3_Witness ==
    /\ brPc = "responded"
    /\ brBody.application_ids.items = <<101, 102, 103>>
    /\ brResponse.status = 200
    /\ brResponse.rejected = <<101, 103>>
    /\ brResponse.failed = <<102>>

----------------------------------------------------------------------------
(* Claims about the full-collection fetch helper (SpecFetchAll)            *)

\* C4: without rate limiting, if pages 1..k-1 return exactly 100 rows and
\* page k is the first to return fewer, the helper issues exactly k page
\* requests, for pages 1..k in order, and returns the rows of all pages in
\* page order.
C4_FetchAllPages ==
    ~faDisturbed =>
        LET k == Len(faServed) IN
        /\ faPc = "done" =>
            /\ k >= 1
            /\ faCalls = [i \in 1..k |-> i]
            /\ \A i \in 1..(k - 1) : Len(faServed[i]) = 100
            /\ Len(faServed[k]) < 100
            /\ Len(faAll) = 100 * (k - 1) + Len(faServed[k])
            /\ [i \in 1..Len(faAll) |-> faAll[i].id]
                 = [i \in 1..Len(faAll) |-> Flatten(faServed)[i].id]
        /\ faPc \in {"loop", "http"} =>
            /\ \A i \in 1..k : Len(faServed[i]) = 100
            /\ Len(faCalls) = IF faPc = "http" THEN k + 1 ELSE k
        /\ faPc # "failed"

\* C4 witness: pages of 100, 100 and 37 rows: 3 requests, 237 records
C4_Witness ==
    /\ faPc = "done"
    /\ ~faDisturbed
    /\ faCalls = <<1, 2, 3>>
    /\ Len(faServed) = 3
    /\ Len(faServed[3]) = 37
    /\ Len(faAll) = 237

----------------------------------------------------------------------------
(* Claims about screening (SpecScreen)                                     *)

\* C5: calibration feedback supplied on POST /api/screen is included in the
\* system prompt sent to the LLM for that call: each supplied disagreement
\* appears in the calibration section.
C5_FeedbackInSystemPrompt ==
    scSystemPrompt # NoValue =>
        \A i \in 1..Len(scBody.feedback) :
            FeedbackExample(scBody.feedback[i]) \in Range(scSystemPrompt.calibration)

\* the LLM answered with a text that parseScreeningResponse accepted
ScreenParsed ==
    /\ scPc = "responded"
    /\ scLlmAnswer # NoValue
    /\ scLlmAnswer.kind = "text"
    /\ parseScreeningResponse(scLlmAnswer).ok

\* the verdict objects of the answer, as the model wrote them
AnsweredElements ==
    IF scLlmAnswer.doc.t = "arr" THEN scLlmAnswer.doc.a ELSE <<scLlmAnswer.doc>>

\* a submitted id for which the answer holds no verdict object
Unanswered(id) ==
    \A i \in 1..Len(AnsweredElements) :
        \/ AnsweredElements[i].t # "obj"
        \/ AnsweredElements[i].f.application_id # JNum(id)

\* C7 as stated: when the answer parses but omits verdicts for some
\* submitted ids, screenApplications does not raise and returns both the
\* parsed results and the list of the missing ids.
C7_ReturnsMissingIds ==
    (ScreenParsed /\ \E id \in Range(scRequest.applications) : Unanswered(id))
    => /\ scReturned.kind = "returned"
       /\ "missing_ids" \in DOMAIN scReturned
       /\ scReturned.missing_ids = SelectSeq(scRequest.applications, Unanswered)

\* C7 amended: when the answer parses, screenApplications does not raise and
\* returns the parsed results only, one per verdict object of the answer; the
\* submitted ids without a verdict are computed, in submission order, and
\* written to the warning log, not returned.
C7_WarnsMissingIds ==
    ScreenParsed
    => /\ scReturned.kind = "returned"
       /\ DOMAIN scReturned = {"kind", "results"}
       /\ Len(scReturned.results) = Len(AnsweredElements)
       /\ scWarned = SelectSeq(scRequest.applications, Unanswered)
       /\ scResponse.status = 200
       /\ scResponse.results = scReturned.results

\* C7 witness: three applications submitted, one verdict returned, the two
\* other ids reported missing
C7_Witness ==
    /\ ScreenParsed
    /\ scRequest.applications = <<101, 102, 103>>
    /\ Len(scReturned.results) = 1
    /\ scReturned.results[1].application_id = VNum(102)
    /\ scWarned = <<101, 103>>

\* the answer is a JSON object or an array of JSON objects
AnswerIsObjects ==
    /\ scPc = "responded"
    /\ scLlmAnswer # NoValue
    /\ scLlmAnswer.kind = "text"
    /\ scLlmAnswer.valid
    /\ \A i \in 1..Len(AnsweredElements) : AnsweredElements[i].t = "obj"

\* C8: parsing is total over JSON objects: no field-level defect raises,
\* every string field of every verdict is a string and every array field a
\* list, a missing string field becomes the empty string and a missing array
\* field the empty list.
C8_ParsingTotal ==
    AnswerIsObjects
    => /\ scReturned.kind = "returned"
       /\ Len(scReturned.results) = Len(AnsweredElements)
       /\ \A i \in 1..Len(AnsweredElements) :
            /\ \A f \in StringFields :
                /\ scReturned.results[i][f].t = "str"
                /\ AnsweredElements[i].f[f] = JUndef
                   => scReturned.results[i][f] = VStr("")
            /\ \A f \in ArrayFields :
                /\ scReturned.results[i][f].t = "list"
                /\ AnsweredElements[i].f[f] = JUndef
                   => scReturned.results[i][f] = VList(<<>>)

----------------------------------------------------------------------------
(* Claims about the runtime settings override (SpecConfig)                 *)

\* C6: after settings are saved with a new Greenhouse or Anthropic API key,
\* every later outbound ATS request and LLM request of the process is
\* authenticated with the key now in CONFIG.
C6_NewKeyAuthenticates ==
    /\ (cfSentAts # NoValue /\ cfSentAts.afterSave)
       => cfSentAts.headers.Authorization
            = BasicAuth(Base64KeyColon(cfSentAts.configKey))
    /\ (cfSentLlm # NoValue /\ cfSentLlm.afterSave)
       => cfSentLlm.apiKey = cfSentLlm.configKey

----------------------------------------------------------------------------
(* Claims about highlights (SpecHighlights)                                *)

\* the least b with b * 100 >= n
CeilOfBatches(n) == CHOOSE b \in 0..n : b * 100 >= n /\ (b = 0 \/ (b - 1) * 100 < n)

\* the least w with w >= 1.5 * topN / b, for b > 0
CeilOfWinners(topN, b) ==
    CHOOSE w \in 0..(3 * topN) : 2 * w * b >= 3 * topN /\ (w = 0 \/ 2 * (w - 1) * b < 3 * topN)

\* C9: for n > 0 candidates and top_n = N the pipeline issues the batch calls
\* 1, 2, ... in order, ceil(n/100) of them once phase 1 is over; batch i holds
\* candidates 100(i-1)+1 .. min(100i, n) in input order and every call asks
\* for ceil(1.5 * N / ceil(n/100)) winners.
C9_BatchCalls ==
    LET n == Len(hlCandidates)
        b == CeilOfBatches(n)
    IN  /\ Len(hlBatchCalls) <= b
        /\ hlPc \in {"rank", "done"} => Len(hlBatchCalls) = b
        /\ hlPc = "batch" => Len(hlBatchCalls) = hlBatch
        /\ \A i \in 1..Len(hlBatchCalls) :
            LET call == hlBatchCalls[i]
                first == 100 * (i - 1) + 1
                last == Min(100 * i, n)
            IN  /\ call.batchNum = i
                /\ call.totalBatches = b
                /\ Len(call.candidates) = last - first + 1
                /\ \A j \in 1..Len(call.candidates) :
                     call.candidates[j] = hlCandidates[first + j - 1]
                /\ call.winnersPerBatch = CeilOfWinners(hlTopN, b)

\* C9 witness: 250 candidates, top_n = 100: three calls of 100, 100 and 50
\* candidates, each asking for 50 winners
C9_Witness ==
    /\ hlPc = "rank"
    /\ Len(hlCandidates) = 250
    /\ hlTopN = 100
    /\ Len(hlBatchCalls) = 3
    /\ Len(hlBatchCalls[1].candidates) = 100
    /\ Len(hlBatchCalls[2].candidates) = 100
    /\ Len(hlBatchCalls[3].candidates) = 50
    /\ \A i \in 1..3 : hlBatchCalls[i].winnersPerBatch = 50

\* C10: the number of winners handed to the final ranking call never exceeds
\* batchCount * winnersPerBatch, whatever the batch answers contain.
C10_Phase2InputBound ==
    hlPc = "rank" =>
        Len(hlRankInput) <=
            NumBatches(Len(hlCandidates))
              * WinnersPerBatch(hlTopN, NumBatches(Len(hlCandidates)))

----------------------------------------------------------------------------
(* Claims about the result of the highlights pipeline (SpecHighlights)    *)

\* the banding of a rank: 1..10 TOP, 11..25 STRONG, 26 and above GOOD
TierOfRank(rank) ==
    IF rank \in 1..10 THEN "TOP" ELSE IF rank \in 11..25 THEN "STRONG" ELSE "GOOD"

\* generateHighlights has returned a non-empty result
HighlightsReturned ==
    hlPc = "done" /\ hlResult.kind = "returned" /\ Len(hlResult.value) > 0

\* C11: in the result of generateHighlights every candidate's tier is the
\* band of its rank (1..10 TOP, 11..25 STRONG, 26+ GOOD), whatever tier the
\* model returned.
C11_TierFromRank ==
    HighlightsReturned =>
        \A i \in 1..Len(hlResult.value) :
            hlResult.value[i].tier = TierOfRank(hlResult.value[i].rank)

\* C12: in every non-empty result of generateHighlights the ranks are exactly
\* 1, 2, ..., len(result) in list order, for any final-ranking answer that
\* parses as an array.
C12_RanksContiguous ==
    HighlightsReturned =>
        \A i \in 1..Len(hlResult.value) : hlResult.value[i].rank = i

\* C13: when the answer of batch i is not parseable JSON or is not an array,
\* the batch contributes no winner, the pipeline does not raise, the progress
\* callback runs for batch i, and the next batch (if any) is started.
C13_GracefulDegradation ==
    [][(hlPc = "batch" /\ hlResponse'.kind \in {"invalidJson", "notArray"}) =>
          /\ hlAllWinners' = hlAllWinners
          /\ hlPc' # "failed"
          /\ hlResult'.kind # "thrown"
          /\ hlProgress' = Append(hlProgress,
                             [batch |-> hlBatch,
                              totalBatches |-> CeilOfBatches(Len(hlCandidates)),
                              winnersFound |-> Len(hlAllWinners)])
          /\ hlBatch < CeilOfBatches(Len(hlCandidates)) =>
                /\ hlPc' = "batch"
                /\ hlBatch' = hlBatch + 1
                /\ Len(hlBatchCalls') = hlBatch + 1
                /\ hlBatchCalls'[hlBatch + 1].batchNum = hlBatch + 1
      ]_vars

\* C13 witness: the answer of batch 1 of 3 did not parse; its progress call
\* was made with no winner and batch 2 is in flight
C13_Witness ==
    /\ hlPc = "batch"
    /\ hlResponse.kind = "invalidJson"
    /\ Len(hlCandidates) = 250
    /\ hlBatch = 2
    /\ hlAllWinners = <<>>
    /\ hlProgress = <<[batch |-> 1, totalBatches |-> 3, winnersFound |-> 0]>>
    /\ Len(hlBatchCalls) = 2

\* the failures the retry wrapper retries: rate limit, server errors,
\* connection resets and timeouts
RetryableFailure(e) ==
    \/ e.status \in {429, 500, 502, 503}
    \/ e.code \in {"ECONNRESET", "ETIMEDOUT"}
    \/ e.causeCode = "ECONNRESET"
    \/ e.message \in {"Connection error.", "socket hang up"}

\* the attempts allowed to the call in flight: 3 for a batch, 5 for the ranking
AttemptsAllowed == IF hlPc = "batch" THEN 3 ELSE 5

\* one step of the call in flight, as the retry wrapper has to take it
WithRetryStep ==
    hlPc \in {"batch", "rank"} =>
        IF hlResponse'.kind = "error"
        THEN IF ~RetryableFailure(hlResponse'.error) \/ hlAttempt = AttemptsAllowed
             THEN /\ hlPc' = "failed"
                  /\ hlResult' = [kind |-> "thrown", error |-> hlResponse'.error]
                  /\ hlLlmCalls' = hlLlmCalls
             ELSE /\ hlPc' = hlPc
                  /\ hlBatch' = hlBatch
                  /\ hlAttempt' = hlAttempt + 1
                  /\ hlLlmCalls' = hlLlmCalls + 1
                  /\ hlResult' = hlResult
        ELSE \/ hlPc' # hlPc
             \/ /\ hlBatch' = hlBatch + 1
                /\ hlAttempt' = 1
                /\ hlLlmCalls' = 1

\* C14: the wrapped LLM call is invoked at most 3 times for a batch and 5
\* times for the final ranking; a failure that is not retryable is rethrown
\* after the invocation that produced it, a retryable failure is rethrown on
\* the last allowed attempt and retried once before it, and the first
\* success ends the invocations.
C14_WithRetry ==
    /\ [](hlPc \in {"batch", "rank"} =>
            (hlAttempt \in 1..AttemptsAllowed /\ hlLlmCalls = hlAttempt))
    /\ [][WithRetryStep]_vars

\* C14 witness: a batch call failed twice with retryable errors and a third
\* time, and the third failure was rethrown
C14_Witness ==
    /\ hlPc = "failed"
    /\ hlBatch = 1
    /\ hlRankInput = <<>>
    /\ hlAttempt = 3
    /\ hlLlmCalls = 3
    /\ hlResponse.kind = "error"
    /\ hlResponse.error.status = 500
    /\ hlResult = [kind |-> "thrown", error |-> hlResponse.error]

\* batch calls started and not yet finished: every processBatch invocation
\* that has returned was followed by its progress call
BatchesInFlight == Len(hlBatchCalls) - Len(hlProgress)

\* C15: batches run one at a time: at most one batch call is in flight, batch
\* i+1 is started only when batch i has finished, and the progress callback
\* is invoked once after each batch, with batch numbers 1..batchCount in
\* increasing order and a non-decreasing winners-so-far count.
C15_SequentialBatches ==
    LET b == CeilOfBatches(Len(hlCandidates)) IN
    /\ BatchesInFlight \in {0, 1}
    /\ BatchesInFlight = 1 <=>
          (hlPc = "batch" \/ (hlPc = "failed" /\ hlRankInput = <<>>))
    /\ hlPc = "batch" => hlBatch = Len(hlProgress) + 1
    /\ Len(hlBatchCalls) <= b
    /\ \A i \in 1..Len(hlBatchCalls) : hlBatchCalls[i].batchNum = i
    /\ \A i \in 1..Len(hlProgress) :
          /\ hlProgress[i].batch = i
          /\ hlProgress[i].totalBatches = b
          /\ i > 1 => hlProgress[i].winnersFound >= hlProgress[i - 1].winnersFound
    /\ hlPc \in {"rank", "done"} => Len(hlProgress) = b
    /\ hlPc = "rank" => hlProgress[b].winnersFound = Len(hlRankInput)

\* C15 witness: three batches done in order, the second adding no winner,
\* and the ranking call in flight
C15_Witness ==
    /\ hlPc = "rank"
    /\ Len(hlBatchCalls) = 3
    /\ Len(hlProgress) = 3
    /\ hlProgress[1].winnersFound = 1
    /\ hlProgress[2].winnersFound = 1
    /\ hlProgress[3].winnersFound = 3

----------------------------------------------------------------------------
(* Claims about the progress streams (SpecStream)                          *)

IsTerminal(e) == e.event \in {"complete", "error"}

IsFinalStatus(e) == e.event = "status" /\ e.phase = "complete"

\* the place of an event in the phase order: init, fetching, processing
\* (processing | extracting | analyzing with progress and batch events), end
PhaseOf(e) ==
    CASE e.event = "status" /\ e.phase = "init" -> 1
      [] e.event = "status" /\ e.phase = "fetching" -> 2
      [] e.event = "fetching" -> 2
      [] e.event = "status" /\ e.phase \in {"processing", "extracting", "analyzing"} -> 3
      [] e.event \in {"progress", "batch"} -> 3
      [] OTHER -> 4

\* the events of the vocabulary in their phases
InVocabulary(e) ==
    \/ e.event = "status"
         /\ e.phase \in {"init", "fetching", "processing", "extracting", "analyzing"}
    \/ e.event \in {"fetching", "progress", "complete", "error"}
    \/ e.event = "batch" /\ smEndpoint = "highlights"

\* some event before position i is the status event of one of the phases
Announced(i, phases) ==
    \E j \in 1..(i - 1) : smEvents[j].event = "status" /\ smEvents[j].phase \in phases

\* the order of the events sent so far, the status events of phase
\* "complete" being accepted or not
EventOrder(finalStatusAccepted) ==
    /\ smEvents # <<>> => smEvents[1] = [event |-> "status", phase |-> "init", n |-> 0]
    /\ \A i \in 1..Len(smEvents) :
        LET e == smEvents[i] IN
        /\ IF IsFinalStatus(e)
           THEN /\ finalStatusAccepted
                /\ i < Len(smEvents)
                /\ smEvents[i + 1].event = "complete"
           ELSE InVocabulary(e)
        /\ i > 1 => PhaseOf(smEvents[i - 1]) <= PhaseOf(e)
        /\ e.event = "fetching" => Announced(i, {"fetching"})
        /\ e.event = "progress" => Announced(i, {"processing", "extracting"})
        /\ e.event = "batch" => Announced(i, {"analyzing"})
        /\ e.event = "complete" =>
              /\ Announced(i, {"fetching"})
              /\ Announced(i, {"processing", "extracting"})
              /\ smEndpoint = "highlights" => Announced(i, {"analyzing"})
        /\ IsTerminal(e) => i = Len(smEvents)
    /\ smClosed <=> (smEvents # <<>> /\ IsTerminal(smEvents[Len(smEvents)]))
    /\ smClosed <=> smPc = "closed"

\* C16 as stated: every stream emits status(init), then status(fetching) and
\* fetching events, then status(processing | extracting | analyzing) with
\* progress (and, for highlights, batch) events, then complete; an error event
\* may replace the remainder; exactly one terminal event is emitted, it is the
\* last event, and the stream is closed right after it.
C16_EventOrder == EventOrder(FALSE)

\* C16 amended: the same order, with one more event on the successful path:
\* a status event of phase "complete" is sent immediately before the complete
\* event.
C16_EventOrderWithFinalStatus == EventOrder(TRUE)

\* C16 witness: a highlights stream that went through every phase, two batch
\* events included, and was closed by its complete event
C16_Witness ==
    /\ smEndpoint = "highlights"
    /\ smClosed
    /\ smEvents[Len(smEvents)].event = "complete"
    /\ \E i, j \in 1..Len(smEvents) :
          /\ i < j
          /\ smEvents[i] = [event |-> "batch", phase |-> "none", n |-> 1]
          /\ smEvents[j] = [event |-> "batch", phase |-> "none", n |-> 2]
    /\ \E i \in 1..Len(smEvents) : smEvents[i].event = "progress"

----------------------------------------------------------------------------
(* Claims about the embedding index (SpecIndex)                            *)

\* the application ids of the records of a file, in file order
RecordIds(file) == [i \in 1..Len(file.records) |-> file.records[i].application_id]

\* the last operation was an indexCandidate that loaded, upserted and saved
SavedCandidate(last) == last.op = "indexCandidate" /\ last.outcome = "saved"

\* an indexCandidate step on an index holding the id replaces that record in
\* place: same ids in the same order, same count
ReplacesInPlace ==
    SavedCandidate(ixLast') /\ ixFiles # ixFiles' =>
        LET before == ixFiles[ixLast'.job]
            after == ixFiles'[ixLast'.job]
        IN  (before.kind = "index"
             /\ \E i \in 1..Len(before.records) :
                   before.records[i].application_id = ixLast'.app)
            => /\ RecordIds(after) = RecordIds(before)
               /\ \A i \in 1..Len(before.records) :
                     before.records[i].application_id # ixLast'.app
                        => after.records[i] = before.records[i]

\* C17: after any sequence of indexCandidate and clearIndex calls on a job
\* the application ids of the records of its index are pairwise distinct, and
\* indexing an id that is already present replaces its record in place and
\* leaves the record count unchanged.
C17_UpsertKeepsIdsDistinct ==
    /\ [](\A job \in IndexJobs :
            \A i, j \in 1..Len(ixFiles[job].records) :
                ixFiles[job].records[i].application_id
                    = ixFiles[job].records[j].application_id => i = j)
    /\ [][ReplacesInPlace]_vars

\* C17 witness: application 11 of job 1 was indexed, then 12, then 11 again
\* with another embedding: two records, 11 still first
C17_Witness ==
    /\ SavedCandidate(ixLast)
    /\ ixLast.job = 1
    /\ ixLast.app = 11
    /\ ixFiles[1].kind = "index"
    /\ RecordIds(ixFiles[1]) = <<11, 12>>
    /\ ixOps = 3
    /\ ixCalls = {}

\* the last operation was a search that returned
SearchReturned == ixLast.op = "searchCandidates" /\ ixLast.outcome = "returned"

\* C18: searchCandidates on an index of K records with limit L returns at most
\* min(K, L) results (none when that is not positive), ordered by
\* non-increasing score; on a missing or empty index it returns the empty
\* list.
C18_SearchBounded ==
    SearchReturned =>
        LET K == Len(ixFiles[ixLast.job].records)
            results == ixLast.results
        IN  /\ Len(results) > 0 => Len(results) <= Min(K, ixLast.limit)
            /\ \A i \in 1..(Len(results) - 1) : results[i].score >= results[i + 1].score
            /\ K = 0 => results = <<>>

\* the content of the file is not a job index
Damaged(file) == file.kind \in {"unparseable", "null", "noRecords"}

\* an indexCandidate that got its embedding meets a damaged file: it starts a
\* fresh index holding its record and does not raise
StartsFreshIndex ==
    (/\ ixLast'.op = "indexCandidate"
     /\ ixLast'.outcome \in {"saved", "raised"}
     /\ ixLast' # ixLast
     /\ Damaged(ixFiles[ixLast'.job]))
    => /\ ixLast'.outcome = "saved"
       /\ ixFiles'[ixLast'.job].kind = "index"
       /\ RecordIds(ixFiles'[ixLast'.job]) = <<ixLast'.app>>

\* C20: a file whose content is not a well-formed job index is treated as no
\* index: getIndexStatus reports indexed = false with count 0,
\* searchCandidates returns the empty list, indexCandidate starts a fresh
\* index, and none of them raises.
C20_DamagedFileIsNoIndex ==
    /\ []((ixLast.op = "getIndexStatus" /\ Damaged(ixFiles[ixLast.job])) =>
            (ixLast.outcome = "returned" /\ ~ixLast.indexed /\ ixLast.count = 0))
    /\ []((ixLast.op = "searchCandidates" /\ Damaged(ixFiles[ixLast.job])) =>
            (ixLast.outcome = "returned" /\ ixLast.results = <<>>))
    /\ [][StartsFreshIndex]_vars

----------------------------------------------------------------------------
(* Claims about the index rebuild (SpecRebuild)                            *)

\* a step taken by the rebuild: its clearIndex, one of its indexCandidate
\* calls finishing, or its loop moving on
RebuildStep ==
    \/ rbPc' # rbPc
    \/ rbNext' # rbNext
    \/ ixLast' # ixLast /\ ixLast'.op = "indexCandidate" /\ ixLast'.by = "rebuild"

\* the rebuild deletes the file of its job before it indexes anything and
\* never touches the file of another job
RebuildWritesOwnJob ==
    RebuildStep =>
        /\ \A job \in IndexJobs \ {rbJob} : ixFiles'[job] = ixFiles[job]
        /\ rbPc = "start" => ixFiles'[rbJob] = [kind |-> "missing", records |-> <<>>]

\* C19: after a rebuild of job J has run to completion with no other writer
\* on J, every record of J's index has an application id processed by that
\* run: no record of the index as it was before the rebuild survives; the
\* indexes of other jobs are left as they were.
C19_RebuildReplacesIndex ==
    /\ []((rbPc = "done" /\ ~rbForeign) =>
            \A i \in 1..Len(ixFiles[rbJob].records) :
                \E k \in 1..Len(rbApps) :
                    ixFiles[rbJob].records[i].application_id = rbApps[k])
    /\ [][RebuildWritesOwnJob]_vars

\* C19 witness: job 1 had an index of applications 11 and 13; the rebuild
\* processed application 11 alone and is done: the index holds 11 only, the
\* index of job 2 is as it was
C19_Witness ==
    /\ rbPc = "done"
    /\ ~rbForeign
    /\ rbJob = 1
    /\ rbApps = <<11>>
    /\ RecordIds(rbBefore) = <<11, 13>>
    /\ ixFiles[1].kind = "index"
    /\ RecordIds(ixFiles[1]) = <<11>>
    /\ RecordIds(ixFiles[2]) = <<12>>

----------------------------------------------------------------------------
(* Claims about concurrent writers of one index file (SpecIndex)           *)

\* the file holds a record of the application
HoldsRecord(file, app) ==
    \E i \in 1..Len(file.records) : file.records[i].application_id = app

\* the file of the job after call `first` and then call `second` got their
\* embeddings and ran to their end
AfterBoth(file, first, second) ==
    SaveCandidate(SaveCandidate(file, first.app, <<1, 0>>).file,
                  second.app, <<1, 0>>).file

\* two calls for one job and two applications
SameJobOtherApp(c, d) == c.job = d.job /\ c.app # d.app

\* C21 as stated: when two indexCandidate calls for the same job and two
\* different application ids run concurrently, one of the orders in which
\* they can finish leaves the index file with the record of only one of them.
C21_LostUpdatePossible ==
    \A c, d \in ixCalls :
        (SameJobOtherApp(c, d) /\ loadIndex(ixFiles[c.job]).value # "object") =>
            \E order \in {<<c, d>>, <<d, c>>} :
                LET after == AfterBoth(ixFiles[c.job], order[1], order[2]) IN
                ~(HoldsRecord(after, c.app) /\ HoldsRecord(after, d.app))

\* C21 amended: the record of every indexCandidate call that saved is in the
\* file of its job until that file is deleted, whatever other calls for the
\* job were waiting for their embedding meanwhile: no order of completion
\* loses an update.
C21_NoLostUpdate ==
    \A s \in ixSaved :
        /\ ixFiles[s.job].kind = "index"
        /\ HoldsRecord(ixFiles[s.job], s.app)

\* C21 witness: the calls for applications 11 and 12 of job 1 waited for
\* their embeddings at the same time, both saved, and the file holds both
C21_Witness ==
    \E s, t \in ixSaved :
        /\ s.job = 1 /\ t.job = 1
        /\ s.app = 11 /\ t.app = 12
        /\ s.raced
        /\ ixOps = 2
        /\ HoldsRecord(ixFiles[1], 11)
        /\ HoldsRecord(ixFiles[1], 12)
        /\ Len(ixFiles[1].records) = 2

----------------------------------------------------------------------------
(* Claims about the backoff of the ATS client (SpecRequest)                *)

----------------------------------------------------------------------------
(* Claims about the retries of the full-collection fetch (SpecFetchAll)    *)

\* an HTTP attempt answered with a failure status other than 429 ends the
\* helper: no further request for the page
FailsOnOtherStatus ==
    (faPc = "http" /\ ~ResponseOk(faLast'.status) /\ faLast'.status # 429)
        => (faPc' = "failed" /\ faCalls' = faCalls)

\* C23: the fetch helper retries a page only when that page request failed
\* because of an HTTP 429: a page request that fails with any other status,
\* whatever its response body contains, makes the helper fail immediately
\* without issuing another request for that page.
C23_RetryOnlyOn429 == [][FailsOnOtherStatus]_vars

\* C24: a page whose upstream requests are always answered with 429 causes at
\* most 6 upstream HTTP attempts for that page (the first attempt plus 5
\* retries) before the failure is surfaced to the caller of the fetch.
C24_AtMostSixAttempts ==
    (faLast.status = 429 /\ faLast.only429) => faHttpPage <= maxRetries + 1

----------------------------------------------------------------------------
(* Claims about rebuilds of one job (SpecOverlap)                          *)

\* the run sends 'complete' in this step
SendsComplete(r) == ovRuns[r].pc # "done" /\ ovRuns'[r].pc = "done"

\* when a run sends 'complete' the index holds every candidate the run saved
CompleteWithAllSaved ==
    \A r \in OverlapRuns :
        SendsComplete(r) =>
            \A app \in ovRuns'[r].saved : HoldsRecord(ovFile', app)

C26_RebuildAccounting ==
    \A r \in OverlapRuns :
        LET run == ovRuns[r] IN
        /\ run.progress.event = "progress" =>
              run.progress.indexed + run.progress.failed = run.progress.processed
        /\ run.complete.event = "complete" =>
              /\ run.complete.indexed + run.complete.failed = run.complete.total
              /\ run.complete.indexed = Cardinality(run.saved)

----------------------------------------------------------------------------
(* Claims about the review screen (SpecReview)                             *)

\* C27: after any sequence of toggle, select-all, page change,
\* screening-filter change, semantic search and job change, every application
\* id sent by the bulk-reject confirmation belongs to the applications
\* displayed in the table at that moment.
C27_BulkRejectOnlyDisplayed ==
    uiSent # NoValue => uiSent.application_ids \subseteq uiSent.displayed

----------------------------------------------------------------------------
(* Claims about the index progress dialog (SpecDialog)                     *)

\* C28: every event written by the server (an 'event:' line followed by its
\* 'data:' line) is handled by the dialog exactly once, whatever way the
\* transport splits the byte stream into read chunks; in particular a
\* 'complete' event always moves the dialog to the complete phase.
C28_EveryEventHandledOnce ==
    dgDone =>
        /\ dgHandled = [k \in 1..Len(dgEvents) |-> k]
        /\ dgEvents[Len(dgEvents)] = "complete" => dgPhase = "complete"

----------------------------------------------------------------------------
(* Claims about client-side screening (SpecClientScreen)                   *)

\* some returned result carries the id
Returned(results, id) == \E k \in 1..Len(results) : results[k].application_id = id

\* the recommendation of the last returned result for the id
LastReturned(results, id) ==
    LET k == CHOOSE k \in 1..Len(results) :
                /\ results[k].application_id = id
                /\ \A j \in (k + 1)..Len(results) : results[j].application_id # id
    IN  results[k].recommendation

----------------------------------------------------------------------------
(* Claims about the candidates of the highlights result (SpecHighlights)   *)

\* the input candidate with the application id
IsCandidate(id) ==
    \E k \in 1..Len(hlCandidates) : hlCandidates[k].application_id = id

\* C30: every entry returned by generateHighlights has an application_id that
\* belongs to the input candidate set (and to the winners passed to phase 2),
\* with candidate_id taken from that candidate, and the result contains at
\* most top_n entries.
C30_ResultRefersToCandidates ==
    (hlPc = "done" /\ hlResult.kind = "returned") =>
        /\ Len(hlResult.value) <= hlTopN
        /\ \A i \in 1..Len(hlResult.value) :
              LET entry == hlResult.value[i] IN
              /\ IsCandidate(entry.application_id)
              /\ \E k \in 1..Len(hlRankInput) :
                    hlRankInput[k].application_id = entry.application_id
              /\ \E k \in 1..Len(hlCandidates) :
                    /\ hlCandidates[k].application_id = entry.application_id
                    /\ hlCandidates[k].candidate_id = entry.candidate_id

====
